---------------------------- MODULE Spec2Model ----------------------------
(***************************************************************************)
(* Sales-Filter: batch lead scoring with live progress reporting.          *)
(*                                                                         *)
(* The module models                                                       *)
(*   - src/app.py: process_file and its background worker                  *)
(*     (process_in_background), log_progress, the cleanup thread, the      *)
(*     persisted-status poll, get_progress and the SSE progress_stream;    *)
(*   - src/app_v05.py: process_file_async and its log_progress;            *)
(*   - src/app.py: calculate_enhanced_score and its detectors.             *)
(*                                                                         *)
(* One job is followed from its upload to the end of its worker thread.    *)
(* Every database write that can raise (db.session.commit() with pending   *)
(* rows, hence every log_progress call of app.py) and every os.unlink is   *)
(* a fault point: it either succeeds or raises, at most MaxFaults times    *)
(* in one run.                                                             *)
(***************************************************************************)
EXTENDS Integers, Sequences, FiniteSets, TLC

\* Bounds of the model.
MaxRows == 2
MaxFaults == 2
MaxStreamRows == 1

\* Calls of calculate_enhanced_score made for one lead, and leads one
\* EnhancedScoringEngine scores.
MaxCalls == 2

\* Frames the interpreter allows on the stack of one thread before it raises
\* RecursionError.
MaxDepth == 100

\* Rows of a sheet the date filter of app_v05 removes before the first kept one.
MaxSkipped == 9

VARIABLES
    \* ---- src/app.py: one upload and its job ----
    upload,              \* the uploaded sheet: [readable, cols, rows]
    status,              \* persisted ProcessingSession.status ("none": no row yet)
    total_rows_db,       \* persisted ProcessingSession.total_rows
    processed_file_path, \* persisted ProcessingSession.processed_file_path is set
    results,             \* persisted ProcessingResult rows (row numbers, in order)
    logs_db,             \* persisted ProcessingLog rows, in insertion order
    in_map,              \* session_id in progress_updates
    snap,                \* the dict object progress_updates[session_id]
    upfile,              \* the upload temp file exists on disk
    outfile,             \* the processed_files artifact exists on disk
    artifact,            \* the rows of that artifact, by input row number
    pc,                  \* position of the worker thread
    idx,                 \* number of the row the loop is at (idx + 1 of the code)
    processed_data,      \* the worker's processed_data list (row numbers)
    faults,              \* faults injected so far
    cpc,                 \* position of the cleanup_progress thread
    observed,            \* persisted statuses seen by successive polls
    \* ---- src/app.py: one subscriber of progress_stream ----
    spc,                 \* position of the generator
    last_log_index,      \* its cursor into the in-memory log
    new_logs,            \* its local new_logs slice
    delivered,           \* the log entries it has sent, in order
    events,              \* what it has emitted: the first event, the number of
                         \* connected and of complete events (counted up to 2),
                         \* whether anything followed a complete event
    \* ---- src/app_v05.py: one upload and its job ----
    v5_upload,           \* the uploaded sheet: [readable, cols, rows]
    v5_status,           \* persisted ProcessingSession.status ("none": no row yet)
    v5_total_rows,       \* persisted ProcessingSession.total_rows
    v5_results_db,       \* persisted ProcessingResult rows (row numbers, in order)
    v5_logs_db,          \* persisted ProcessingLog rows, in insertion order
    v5_in_map,           \* session_id in progress_updates
    v5_snap,             \* progress_updates[session_id]: processed_rows, total_rows
    v5_upfile,           \* the uploaded file exists on disk
    v5_pc,               \* position of the process_file_async thread
    v5_idx,              \* number of the row the loop is at (idx + 1 of the code)
    v5_results,          \* the worker's results list (row numbers)
    v5_exc,              \* the exception the handler of line 548 received:
                         \* the missing columns a ValueError names ({} otherwise)
    v5_faults,           \* writes that raised so far: [log, commit]
    \* ---- src/app.py: one lead and its score ----
    sc_name,             \* the row's name cell
    sc_email,            \* the row's email cell
    sc_flags,            \* the results of the row's verifications
    sc_scored,           \* calculate_enhanced_score has returned
    sc_calls,            \* calls of calculate_enhanced_score so far
    sc_domain,           \* extract_domain(email)
    sc_out,              \* what calculate_enhanced_score returned
    \* ---- src/app.py: one client of GET /progress/<id> ----
    gpc,                 \* position of the get_progress request
    response,            \* what the last get_progress request returned
    \* ---- src/scoring_engine_didww_enhanced.py: one calculate_score call ----
    engine,              \* the call: its domain, its position, the frames on the stack
    \* ---- src/scoring_engine_v06.py: one EnhancedScoringEngine ----
    opencorporates,      \* what the OpenCorporates search answers to each query
    company_cache,       \* CompanyEnrichment.cache, by domain
    phone_cache,         \* PhoneEnrichment.cache, by email
    v6_leads,            \* the (name, email) pairs scored so far
    v6_out               \* what the last calculate_score call returned

vars_job == <<upload, status, total_rows_db, processed_file_path, results, logs_db,
              in_map, snap, upfile, outfile, artifact, pc, idx, processed_data, faults, cpc,
              observed>>

vars_stream == <<spc, last_log_index, new_logs, delivered, events>>

vars_v05 == <<v5_upload, v5_status, v5_total_rows, v5_results_db, v5_logs_db, v5_in_map,
              v5_snap,
              v5_upfile, v5_pc, v5_idx, v5_results, v5_exc, v5_faults>>

vars_score == <<sc_name, sc_email, sc_flags, sc_scored, sc_calls, sc_domain, sc_out>>

vars_poll == <<gpc, response>>

vars_engines == <<engine, opencorporates, company_cache, phone_cache, v6_leads, v6_out>>

vars == <<vars_job, vars_stream, vars_v05, vars_score, vars_poll, vars_engines>>

\* What the worker, the cleanup thread and the status poll leave alone.
not_job == <<vars_stream, vars_v05, vars_score, vars_poll, vars_engines>>

-----------------------------------------------------------------------------
\* Inputs

\* A row of the sheet, by what the per-row code does with it:
\*   "ok"       name is a string, email has an '@' and a domain
\*   "nodomain" email has no '@': extract_domain returns None, no per-row log
\*   "raises"   email has a domain and name is a numeric cell:
\*              analyze_name_email_consistency calls name.lower() and raises
RowKinds == {"ok", "nodomain", "raises"}

RECURSIVE SeqsUpTo(_, _)
SeqsUpTo(S, n) ==
    IF n = 0 THEN {<<>>}
    ELSE LET shorter == SeqsUpTo(S, n - 1)
         IN  shorter \cup {Append(s, x) : s \in {t \in shorter : Len(t) = n - 1}, x \in S}

required_columns == {"name", "email"}

Uploads ==
    {[readable |-> FALSE, cols |-> required_columns, rows |-> <<>>]}
    \cup [readable : {TRUE}, cols : SUBSET required_columns, rows : SeqsUpTo(RowKinds, MaxRows)]

\* The uploads followed together with a subscriber of the stream.
StreamUploads ==
    {[readable |-> FALSE, cols |-> required_columns, rows |-> <<>>],
     [readable |-> TRUE, cols |-> {"name"}, rows |-> <<>>]}
    \cup [readable : {TRUE}, cols : {required_columns},
          rows : SeqsUpTo(RowKinds, MaxStreamRows)]

HasDomain(kind) == kind \in {"ok", "raises"}

ScoringRaises(kind) == kind = "raises"

-----------------------------------------------------------------------------
\* src/app.py: log_progress

LogEntry(level, message, row, cols) ==
    [level |-> level, message |-> message, row |-> row, cols |-> cols]

\* db.session.add(log); db.session.commit() succeeded: the row is persisted and,
\* when the job has a snapshot, appended to its in-memory log (lines 917-928).
log_progress(entry) ==
    /\ logs_db' = Append(logs_db, entry)
    /\ snap' = IF in_map THEN [snap EXCEPT !.logs = Append(@, entry)] ELSE snap

\* The outcomes of an operation that can raise: TRUE (it succeeds) and, while the
\* run's fault budget lasts, FALSE (it raises).
Outcomes == IF faults < MaxFaults THEN {TRUE, FALSE} ELSE {TRUE}

Fault(ok) == faults' = IF ok THEN faults ELSE faults + 1

\* One log_progress call at position `from`: when the commit succeeds the worker
\* goes on to `to`, when it raises the exception reaches `handler`.
LogStep(from, entry, to, handler) ==
    /\ pc = from
    /\ \E ok \in Outcomes :
        /\ Fault(ok)
        /\ IF ok
           THEN log_progress(entry) /\ pc' = to
           ELSE UNCHANGED <<logs_db, snap>> /\ pc' = handler

-----------------------------------------------------------------------------
\* src/app.py: process_file (the request handler)

\* A current_step or message of the snapshot: its text and, in
\* f'Processing row {idx + 1} of {len(df)}', the row number (0 elsewhere).
Text(text, row) == [text |-> text, row |-> row]

InitSnapshot ==
    [total_rows |-> 0, processed_rows |-> 0, current_row |-> 0,
     current_step |-> Text("Initializing", 0),
     message |-> Text("Starting file processing...", 0),
     logs |-> <<>>]

\* The worker thread started although the Job row was not committed.
process_file_without_job ==
    /\ pc = "idle"
    /\ status = "none"
    /\ in_map' = TRUE
    /\ snap' = InitSnapshot
    /\ pc' = "w_start"
    /\ UNCHANGED <<not_job, upload, status, total_rows_db, processed_file_path, results, logs_db,
                   upfile, outfile, artifact, idx, processed_data, faults, cpc, observed>>

\* Lines 951-970 and 1252-1261: the Job row is committed with status
\* 'processing', the snapshot is created, the worker thread is started.
process_file ==
    /\ pc = "idle"
    /\ status = "none"
    /\ status' = "processing"
    /\ total_rows_db' = 0
    /\ in_map' = TRUE
    /\ snap' = InitSnapshot
    /\ pc' = "w_start"
    /\ UNCHANGED <<not_job, upload, processed_file_path, results, logs_db, upfile, outfile, artifact,
                   idx, processed_data, faults, cpc, observed>>

-----------------------------------------------------------------------------
\* src/app.py: process_in_background (the worker thread)
\*
\* `session` in the worker is the instance the request handler created: it belongs
\* to the request's db.session (Flask-SQLAlchemy scopes db.session per application
\* context / thread), not to the worker's, so the worker's db.session.commit()
\* after `session.status = 'failed'` or `session.total_rows = len(df)` (lines 986,
\* 993, 1003, 1226) flushes nothing: those assignments never reach the database,
\* and those commits, having nothing to write, are no fault points.  Only the
\* instances the worker fetches itself (current_session, failed_session; see the
\* comment at line 1200) are written by its commits.

rest_log == <<upload, status, total_rows_db, processed_file_path, results, in_map,
              upfile, outfile, artifact, idx, processed_data, cpc, observed, not_job>>

rest_step == <<upload, status, total_rows_db, processed_file_path, results, logs_db,
               in_map, upfile, outfile, artifact, idx, processed_data, faults, cpc, observed,
               not_job>>

NRows == Len(upload.rows)

\* Line 976.
w_start ==
    /\ LogStep("w_start", LogEntry("info", "Started processing file", 0, {}),
               "w_log_reading", "x_outer")
    /\ UNCHANGED rest_log

\* Line 980 (inside the try of lines 979-990).
w_log_reading ==
    /\ LogStep("w_log_reading", LogEntry("info", "Reading Excel file...", 0, {}),
               "w_read", "x_read")
    /\ UNCHANGED rest_log

\* Lines 981-982: pd.read_excel raises on a sheet it cannot read.
w_read ==
    /\ pc = "w_read"
    /\ snap' = [snap EXCEPT !.message = Text("Reading Excel file...", 0)]
    /\ pc' = IF upload.readable THEN "w_log_read_ok" ELSE "x_read"
    /\ UNCHANGED rest_step

\* Line 983 (still inside the try of lines 979-990).
w_log_read_ok ==
    /\ LogStep("w_log_read_ok", LogEntry("success", "Successfully read Excel file", 0, {}),
               "w_total", "x_read")
    /\ UNCHANGED rest_log

\* Line 985.
x_read ==
    /\ LogStep("x_read", LogEntry("error", "Error reading Excel file", 0, {}),
               "x_read_failed", "x_outer")
    /\ UNCHANGED rest_log

\* Lines 986-988: session.status = 'failed' is set on the request's instance.
x_read_failed ==
    /\ pc = "x_read_failed"
    /\ snap' = [snap EXCEPT !.current_step = Text("failed", 0)]
    /\ pc' = "x_read_unlink"
    /\ UNCHANGED rest_step

\* One os.unlink(upload_temp.name) at position `from`.
UnlinkUpload(from, to, handler) ==
    /\ pc = from
    /\ \E ok \in Outcomes :
        /\ Fault(ok)
        /\ upfile' = IF ok THEN FALSE ELSE upfile
        /\ pc' = IF ok THEN to ELSE handler
    /\ UNCHANGED <<not_job, upload, status, total_rows_db, processed_file_path, results, logs_db,
                   in_map, snap, outfile, artifact, idx, processed_data, cpc, observed>>

\* Lines 989-990.
x_read_unlink == UnlinkUpload("x_read_unlink", "done", "x_outer")

\* Lines 993-995: session.total_rows is set on the request's instance.
w_total ==
    /\ pc = "w_total"
    /\ snap' = [snap EXCEPT !.total_rows = NRows]
    /\ pc' = "w_validate"
    /\ UNCHANGED rest_step

missing_columns == required_columns \ upload.cols

\* Lines 998-1001.
w_validate ==
    /\ pc = "w_validate"
    /\ pc' = IF missing_columns # {} THEN "v_log" ELSE "w_log_verif"
    /\ UNCHANGED <<snap, rest_step>>

\* Line 1002.
v_log ==
    /\ LogStep("v_log", LogEntry("error", "Missing required columns", 0, missing_columns),
               "v_failed", "x_outer")
    /\ UNCHANGED rest_log

\* Lines 1003-1005: session.status = 'failed' is set on the request's instance.
v_failed ==
    /\ pc = "v_failed"
    /\ snap' = [snap EXCEPT !.current_step = Text("failed", 0)]
    /\ pc' = "v_unlink"
    /\ UNCHANGED rest_step

\* Lines 1006-1007.
v_unlink == UnlinkUpload("v_unlink", "done", "x_outer")

\* Line 1009.
w_log_verif ==
    /\ LogStep("w_log_verif", LogEntry("info", "Starting lead verification process...", 0, {}),
               "w_msg_leads", "x_outer")
    /\ UNCHANGED rest_log

\* Line 1010.
w_msg_leads ==
    /\ pc = "w_msg_leads"
    /\ snap' = [snap EXCEPT !.message = Text("Processing leads...", 0)]
    /\ pc' = "r_next"
    /\ UNCHANGED rest_step

\* Line 1038: for idx, row in df.iterrows().
r_next ==
    /\ pc = "r_next"
    /\ IF idx < NRows
       THEN idx' = idx + 1 /\ pc' = "r_processed_rows"
       ELSE idx' = idx /\ pc' = "s_log_saving"
    /\ UNCHANGED <<not_job, upload, status, total_rows_db, processed_file_path, results, logs_db,
                   in_map, snap, upfile, outfile, artifact, processed_data, faults, cpc, observed>>

\* Lines 1039-1042: four separate stores into the shared dict.
r_processed_rows ==
    /\ pc = "r_processed_rows"
    /\ snap' = [snap EXCEPT !.processed_rows = idx]
    /\ pc' = "r_current_row"
    /\ UNCHANGED rest_step

r_current_row ==
    /\ pc = "r_current_row"
    /\ snap' = [snap EXCEPT !.current_row = idx]
    /\ pc' = "r_current_step"
    /\ UNCHANGED rest_step

r_current_step ==
    /\ pc = "r_current_step"
    /\ snap' = [snap EXCEPT !.current_step = Text("Processing row", idx)]
    /\ pc' = "r_message"
    /\ UNCHANGED rest_step

r_message ==
    /\ pc = "r_message"
    /\ snap' = [snap EXCEPT !.message = Text("Processing row", idx)]
    /\ pc' = "r_domain"
    /\ UNCHANGED rest_step

\* Lines 1044-1057: the 'Checking domain' log is written only for a row with a domain.
r_domain ==
    IF pc = "r_domain" /\ ~HasDomain(upload.rows[idx])
    THEN pc' = "r_score" /\ UNCHANGED <<snap, rest_step>>
    ELSE /\ LogStep("r_domain", LogEntry("info", "Checking domain", idx, {}),
                    "r_score", "x_outer")
         /\ UNCHANGED rest_log

\* Lines 1059-1075: the verifications and calculate_enhanced_score.  There is no
\* try around the loop body: an exception raised here reaches the handler of
\* line 1243.
r_score ==
    /\ pc = "r_score"
    /\ pc' = IF ScoringRaises(upload.rows[idx]) THEN "x_outer" ELSE "r_log_result"
    /\ UNCHANGED <<snap, rest_step>>

\* Lines 1078-1084.
r_log_result ==
    IF pc = "r_log_result" /\ ~HasDomain(upload.rows[idx])
    THEN pc' = "r_collect" /\ UNCHANGED <<snap, rest_step>>
    ELSE /\ LogStep("r_log_result", LogEntry("success/warning", "Domain status", idx, {}),
                    "r_collect", "x_outer")
         /\ UNCHANGED rest_log

\* The row's results put in front of those collected so far.
r_collect_prepending ==
    /\ pc = "r_collect"
    /\ processed_data' = <<idx>> \o processed_data
    /\ pc' = "r_next"
    /\ UNCHANGED <<not_job, upload, status, total_rows_db, processed_file_path, results, logs_db,
                   in_map, snap, upfile, outfile, artifact, idx, faults, cpc, observed>>

\* Lines 1095-1145: the row's results are appended to the column lists of the
\* artifact and to processed_data, here one list of input row numbers.
r_collect ==
    /\ pc = "r_collect"
    /\ processed_data' = Append(processed_data, idx)
    /\ pc' = "r_next"
    /\ UNCHANGED <<not_job, upload, status, total_rows_db, processed_file_path, results, logs_db,
                   in_map, snap, upfile, outfile, artifact, idx, faults, cpc, observed>>

\* Line 1147.
s_log_saving ==
    /\ LogStep("s_log_saving", LogEntry("info", "Saving results to file...", 0, {}),
               "s_msg_saving", "x_outer")
    /\ UNCHANGED rest_log

\* Line 1148.
s_msg_saving ==
    /\ pc = "s_msg_saving"
    /\ snap' = [snap EXCEPT !.message = Text("Saving results...", 0)]
    /\ pc' = "s_log_columns"
    /\ UNCHANGED rest_step

\* Lines 1151-1181.
s_log_columns ==
    /\ LogStep("s_log_columns", LogEntry("info", "Excel file will contain columns", 0, {}),
               "s_log_github", "x_outer")
    /\ UNCHANGED rest_log

\* Lines 1184-1188: the github columns were added at lines 1163-1164.
s_log_github ==
    /\ LogStep("s_log_github", LogEntry("success", "GitHub columns confirmed", 0, {}),
               "s_to_excel", "x_outer")
    /\ UNCHANGED rest_log

\* Lines 1191-1194: df.to_excel writes the output artifact.
s_to_excel ==
    /\ pc = "s_to_excel"
    /\ outfile' = TRUE
    /\ artifact' = processed_data
    /\ pc' = "s_log_db"
    /\ UNCHANGED <<not_job, upload, status, total_rows_db, processed_file_path, results, logs_db,
                   in_map, snap, upfile, idx, processed_data, faults, cpc, observed>>

\* Line 1196.
s_log_db ==
    /\ LogStep("s_log_db", LogEntry("info", "Saving results to database...", 0, {}),
               "s_commit", "x_outer")
    /\ UNCHANGED rest_log

\* A commit that writes the job's fields but none of the ProcessingResult rows.
s_commit_without_results ==
    /\ pc = "s_commit"
    /\ \E ok \in Outcomes :
        /\ Fault(ok)
        /\ IF ok
           THEN /\ status' = "completed"
                /\ processed_file_path' = TRUE
                /\ total_rows_db' = NRows
                /\ results' = results
                /\ pc' = "s_log_success"
           ELSE /\ UNCHANGED <<status, processed_file_path, total_rows_db, results>>
                /\ pc' = "h_log"
    /\ UNCHANGED <<not_job, upload, logs_db, in_map, snap, upfile, outfile, artifact, idx, processed_data,
                   cpc, observed>>

\* Lines 1199-1215: current_session is fetched by the worker, so this commit
\* writes status, processed_file_path, total_rows and every ProcessingResult, or
\* raises and writes nothing.
s_commit ==
    /\ pc = "s_commit"
    /\ \E ok \in Outcomes :
        /\ Fault(ok)
        /\ IF ok
           THEN /\ status' = "completed"
                /\ processed_file_path' = TRUE
                /\ total_rows_db' = NRows
                /\ results' = results \o processed_data
                /\ pc' = "s_log_success"
           ELSE /\ UNCHANGED <<status, processed_file_path, total_rows_db, results>>
                /\ pc' = "h_log"
    /\ UNCHANGED <<not_job, upload, logs_db, in_map, snap, upfile, outfile, artifact, idx, processed_data,
                   cpc, observed>>

\* Line 1216 (still inside the try of lines 1199-1229).
s_log_success ==
    /\ LogStep("s_log_success", LogEntry("success", "Successfully processed leads", 0, {}),
               "s_completed", "h_log")
    /\ UNCHANGED rest_log

\* Lines 1217-1218.
s_completed ==
    /\ pc = "s_completed"
    /\ snap' = [snap EXCEPT !.current_step = Text("completed", 0),
                            !.message = Text("Processing completed!", 0)]
    /\ pc' = "s_unlink"
    /\ UNCHANGED rest_step

\* Line 1233.
s_unlink == UnlinkUpload("s_unlink", "s_cleanup", "x_outer")

\* Lines 1236-1241: the cleanup thread is started only here.
s_cleanup ==
    /\ pc = "s_cleanup"
    /\ cpc' = "sleeping"
    /\ pc' = "done"
    /\ UNCHANGED <<not_job, upload, status, total_rows_db, processed_file_path, results, logs_db,
                   in_map, snap, upfile, outfile, artifact, idx, processed_data, faults, observed>>

\* Lines 1220-1222: db.session.rollback() and the handler's own log write.
h_log ==
    /\ LogStep("h_log", LogEntry("error", "Database error", 0, {}), "h_unlink", "x_outer")
    /\ UNCHANGED rest_log

\* Lines 1224-1225: the output artifact is removed.
h_unlink ==
    /\ pc = "h_unlink"
    /\ \E ok \in Outcomes :
        /\ Fault(ok)
        /\ outfile' = IF ok THEN FALSE ELSE outfile
        /\ artifact' = IF ok THEN <<>> ELSE artifact
        /\ pc' = IF ok THEN "h_failed" ELSE "x_outer"
    /\ UNCHANGED <<not_job, upload, status, total_rows_db, processed_file_path, results, logs_db,
                   in_map, snap, upfile, idx, processed_data, cpc, observed>>

\* Lines 1226-1229: session.status = 'failed' is set on the request's instance;
\* raise db_error reaches the handler of line 1243.
h_failed ==
    /\ pc = "h_failed"
    /\ snap' = [snap EXCEPT !.current_step = Text("failed", 0)]
    /\ pc' = "x_outer"
    /\ UNCHANGED rest_step

\* Line 1244: the handler's log write is not guarded; when it raises, the
\* exception leaves the thread.
x_outer ==
    /\ LogStep("x_outer", LogEntry("error", "Processing error", 0, {}),
               "x_outer_step", "died")
    /\ UNCHANGED rest_log

\* Line 1245.
x_outer_step ==
    /\ pc = "x_outer_step"
    /\ IF in_map
       THEN snap' = [snap EXCEPT !.current_step = Text("failed", 0)] /\ pc' = "x_outer_status"
       ELSE snap' = snap /\ pc' = "died"
    /\ UNCHANGED rest_step

\* Lines 1247-1250: failed_session is fetched by the worker, so this commit
\* writes the status.
x_outer_status ==
    /\ pc = "x_outer_status"
    /\ \E ok \in Outcomes :
        /\ Fault(ok)
        /\ status' = IF ok THEN "failed" ELSE status
        /\ pc' = IF ok THEN "done" ELSE "died"
    /\ UNCHANGED <<not_job, upload, total_rows_db, processed_file_path, results, logs_db, in_map,
                   snap, upfile, outfile, artifact, idx, processed_data, cpc, observed>>

\* The worker but for the handler of lines 1220-1229, which only a failed write
\* reaches.
WorkerMain ==
    \/ w_start \/ w_log_reading \/ w_read \/ w_log_read_ok
    \/ x_read \/ x_read_failed \/ x_read_unlink
    \/ w_total \/ w_validate \/ v_log \/ v_failed \/ v_unlink
    \/ w_log_verif \/ w_msg_leads
    \/ r_next \/ r_processed_rows \/ r_current_row \/ r_current_step \/ r_message
    \/ r_domain \/ r_score \/ r_log_result \/ r_collect
    \/ s_log_saving \/ s_msg_saving \/ s_log_columns \/ s_log_github \/ s_to_excel
    \/ s_log_db \/ s_commit \/ s_log_success \/ s_completed \/ s_unlink \/ s_cleanup
    \/ x_outer \/ x_outer_step \/ x_outer_status

Worker == WorkerMain \/ h_log \/ h_unlink \/ h_failed

WorkerTerminated == pc \in {"done", "died"}

-----------------------------------------------------------------------------
\* src/app.py: cleanup_progress (lines 1236-1239), after time.sleep(300)

cleanup_progress ==
    /\ cpc = "sleeping"
    /\ in_map' = FALSE
    /\ cpc' = "done"
    /\ UNCHANGED <<not_job, upload, status, total_rows_db, processed_file_path, results, logs_db,
                   snap, upfile, outfile, artifact, pc, idx, processed_data, faults, observed>>

-----------------------------------------------------------------------------
\* src/app.py: get_session_details (lines 1330-1343) returns session.to_dict(),
\* whose 'status' is the persisted status.  `observed` keeps the statuses
\* successive polls returned, without immediate repetitions.

get_session_details ==
    /\ status # "none"
    /\ IF observed = <<>> THEN TRUE ELSE observed[Len(observed)] # status
    /\ observed' = Append(observed, status)
    /\ UNCHANGED <<not_job, upload, status, total_rows_db, processed_file_path, results, logs_db,
                   in_map, snap, upfile, outfile, artifact, pc, idx, processed_data, faults, cpc>>

-----------------------------------------------------------------------------
\* src/app.py: get_progress (lines 1440-1462), one client polling
\* GET /progress/<id>.  The request runs in its own thread: the membership test
\* of line 1442 and the lookup of line 1445 are two reads of the shared dict,
\* and the cleanup thread can run between them.

rest_poll == <<vars_job, vars_stream, vars_v05, vars_score, vars_engines>>

NoResponse == [kind |-> "none", total_rows |-> 0, processed_rows |-> 0, current_row |-> 0,
               current_step |-> Text("", 0), message |-> Text("", 0)]

\* Lines 1443-1446: the live snapshot.
SnapshotResponse ==
    [kind |-> "snapshot", total_rows |-> snap.total_rows,
     processed_rows |-> snap.processed_rows, current_row |-> snap.current_row,
     current_step |-> snap.current_step, message |-> snap.message]

\* A fallback that reports no processed rows whatever the job's status.
PersistedResponse_without_rows ==
    [kind |-> "persisted", total_rows |-> total_rows_db, processed_rows |-> 0,
     current_row |-> 0, current_step |-> Text(status, 0), message |-> Text("", 0)]

\* Lines 1451-1459: the persisted job (ProcessingSession.query.get found it).
PersistedResponse ==
    [kind |-> "persisted", total_rows |-> total_rows_db,
     processed_rows |-> IF status = "completed" THEN total_rows_db ELSE 0,
     current_row |-> 0, current_step |-> Text(status, 0), message |-> Text("", 0)]

\* Lines 1460-1461: 404, 'Session not found'.
NotFoundResponse == [NoResponse EXCEPT !.kind = "not_found"]

\* The KeyError of progress_updates[session_id] leaves the view: 500.
ErrorResponse == [NoResponse EXCEPT !.kind = "error"]

\* Line 1442: if session_id in progress_updates.
gp_test ==
    /\ gpc = "idle"
    /\ gpc' = IF in_map THEN "lookup" ELSE "fallback"
    /\ UNCHANGED <<response, rest_poll>>

\* Lines 1443-1446: progress_updates[session_id] is looked up again.
gp_lookup ==
    /\ gpc = "lookup"
    /\ response' = IF in_map THEN SnapshotResponse ELSE ErrorResponse
    /\ gpc' = "idle"
    /\ UNCHANGED rest_poll

\* Lines 1448-1461.
gp_fallback ==
    /\ gpc = "fallback"
    /\ response' = IF status # "none" THEN PersistedResponse ELSE NotFoundResponse
    /\ gpc' = "idle"
    /\ UNCHANGED rest_poll

get_progress == gp_test \/ gp_lookup \/ gp_fallback

InitPoll ==
    /\ gpc = "idle"
    /\ response = NoResponse

NoPoll ==
    /\ gpc = "absent"
    /\ response = NoResponse

-----------------------------------------------------------------------------
\* src/app.py: progress_stream.generate (lines 1479-1511), one subscriber.
\* The generator runs in the request's thread, concurrently with the worker; it
\* reads the live dict object, not a copy.

NoEvents == [first |-> "none", connected |-> 0, complete |-> 0, after_complete |-> FALSE]

\* yield of one event of type e.
Emit(ev, e) ==
    [first |-> IF ev.first = "none" THEN e ELSE ev.first,
     connected |-> IF e = "connected" /\ ev.connected < 2 THEN ev.connected + 1
                   ELSE ev.connected,
     complete |-> IF e = "complete" /\ ev.complete < 2 THEN ev.complete + 1
                  ELSE ev.complete,
     after_complete |-> ev.after_complete \/ ev.complete > 0]

rest_stream == <<vars_job, vars_v05, vars_score, vars_poll, vars_engines>>

\* Lines 1481-1484.
stream_connect ==
    /\ spc = "start"
    /\ events' = Emit(events, "connected")
    /\ last_log_index' = 0
    /\ spc' = "loop"
    /\ UNCHANGED <<new_logs, delivered, rest_stream>>

\* Line 1487: if session_id in progress_updates.
stream_test ==
    /\ spc = "loop"
    /\ spc' = IF in_map THEN "lookup" ELSE "db_check"
    /\ UNCHANGED <<last_log_index, new_logs, delivered, events, rest_stream>>

\* Lines 1488-1491: progress_updates[session_id] raises KeyError when the entry
\* was deleted after the test of line 1487; otherwise a progress event is sent.
stream_progress ==
    /\ spc = "lookup"
    /\ IF in_map
       THEN events' = Emit(events, "progress") /\ spc' = "slice"
       ELSE events' = events /\ spc' = "crashed"
    /\ UNCHANGED <<last_log_index, new_logs, delivered, rest_stream>>

\* progress['logs'][last_log_index:]
LogsFrom(logs, index) == SubSeq(logs, index + 1, Len(logs))

\* Lines 1494-1495.
stream_slice ==
    /\ spc = "slice"
    /\ new_logs' = LogsFrom(snap.logs, last_log_index)
    /\ spc' = IF LogsFrom(snap.logs, last_log_index) # <<>> THEN "send" ELSE "check"
    /\ UNCHANGED <<last_log_index, delivered, events, rest_stream>>

\* Lines 1496-1497: one log event per entry of new_logs.
stream_send ==
    /\ spc = "send"
    /\ delivered' = delivered \o new_logs
    /\ events' = Emit(events, "log")
    /\ spc' = "cursor"
    /\ UNCHANGED <<last_log_index, new_logs, rest_stream>>

\* The cursor after a round that sent new_logs.
NextLogIndex(logs, index, sent) == Len(logs)

\* Line 1498: last_log_index = len(progress['logs']), read after the yields.
\* new_logs is not read again before line 1494 assigns it.
stream_cursor ==
    /\ spc = "cursor"
    /\ last_log_index' = NextLogIndex(snap.logs, last_log_index, new_logs)
    /\ new_logs' = <<>>
    /\ spc' = "check"
    /\ UNCHANGED <<delivered, events, rest_stream>>

\* Whether the snapshot tells the generator to finish.
SnapshotComplete(step) == step = Text("completed", 0)

\* Lines 1501-1502 without the break of line 1503: the generator goes on
\* polling after the complete event.
stream_check_no_break ==
    /\ spc = "check"
    /\ IF SnapshotComplete(snap.current_step)
       THEN events' = Emit(events, "complete")
       ELSE events' = events
    /\ spc' = "loop"
    /\ UNCHANGED <<last_log_index, new_logs, delivered, rest_stream>>

\* Lines 1501-1503 and 1511.
stream_check ==
    /\ spc = "check"
    /\ IF SnapshotComplete(snap.current_step)
       THEN events' = Emit(events, "complete") /\ spc' = "closed"
       ELSE events' = events /\ spc' = "loop"
    /\ UNCHANGED <<last_log_index, new_logs, delivered, rest_stream>>

\* Whether the persisted job tells the generator to finish.
SessionComplete(st) == st = "completed"

\* Lines 1506-1509 and 1511: ProcessingSession.query.get(session_id).
stream_db_check ==
    /\ spc = "db_check"
    /\ IF SessionComplete(status)
       THEN events' = Emit(events, "complete") /\ spc' = "closed"
       ELSE events' = events /\ spc' = "loop"
    /\ UNCHANGED <<last_log_index, new_logs, delivered, rest_stream>>

Streamer ==
    \/ stream_connect \/ stream_test \/ stream_progress \/ stream_slice
    \/ stream_send \/ stream_cursor \/ stream_check \/ stream_db_check

InitStreamer ==
    /\ spc = "start"
    /\ last_log_index = 0
    /\ new_logs = <<>>
    /\ delivered = <<>>
    /\ events = NoEvents

NoStreamer ==
    /\ spc = "absent"
    /\ last_log_index = 0
    /\ new_logs = <<>>
    /\ delivered = <<>>
    /\ events = NoEvents

-----------------------------------------------------------------------------
\* src/app_v05.py: upload, log_progress and process_file_async
\*
\* Here `session` is fetched by the worker itself (line 399), so its commits write
\* the status.  log_progress opens its own application context and catches every
\* exception of its write: a failed log write is lost and changes nothing else.
\* The sheets followed here carry no date column and no date filter.

\* A row of the sheet, by what DIDWWScoringEngine.calculate_score does with it:
\*   "ok"     the engine returns (e.g. an address at a free provider)
\*   "raises" the engine raises on present cells (e.g. a numeric email cell)
\*   "null"   the name or the email cell is empty: pandas yields NaN, the loop
\*            passes row['name'], row['email'] as they are (line 463), and the
\*            engine raises TypeError, on '@' not in email (line 575) for a
\*            NaN email, on len(name) (lines 486, 497) for a NaN name
RowKindsV05 == {"ok", "raises", "null"}

EngineRaises(kind) == kind \in {"raises", "null"}

\* The uploaded sheet with the job's date filter: `rows` are the rows the
\* filter keeps (all of them without a filter), date_column tells whether
\* column C holds dates, date_from whether the job has a date_from, and
\* `skipped` is the number of rows of the sheet before the first kept one,
\* which df[df['date'] >= ...] removes without renumbering the rest.
UploadsV05 ==
    {[readable |-> FALSE, cols |-> required_columns, rows |-> <<>>,
      date_column |-> FALSE, date_from |-> FALSE, skipped |-> 0]}
    \cup {u \in [readable : {TRUE}, cols : SUBSET required_columns,
                  rows : SeqsUpTo(RowKindsV05, MaxRows),
                  date_column : BOOLEAN, date_from : BOOLEAN, skipped : 0..MaxSkipped] :
              u.skipped > 0 => (u.date_column /\ u.date_from)}

\* The per-row progress log is written every ProgressEvery rows and on the last row.
ProgressEvery == 10

OutcomesV05 ==
    IF v5_faults.log + v5_faults.commit < MaxFaults THEN {TRUE, FALSE} ELSE {TRUE}

rest_v05 == <<vars_job, vars_stream, vars_score, vars_poll, vars_engines, v5_upload>>

\* The two keys of progress_updates[session_id] that lines 486-487 store;
\* -1 stands for a key the dict does not hold yet.
NoSnapV05 == [processed_rows |-> -1, total_rows |-> -1]

\* Lines 51-75: the write either succeeds, and then the job has an entry in
\* progress_updates, or raises, and the exception is swallowed.  The row's
\* progress is the fraction num/den the caller passed, 0 without one
\* (progress or 0.0).
log_progress_v05(entry, ok) ==
    /\ v5_logs_db' =
          IF ok
          THEN Append(v5_logs_db,
                      IF "progress" \in DOMAIN entry THEN entry
                      ELSE entry @@ [progress |-> [num |-> 0, den |-> 1]])
          ELSE v5_logs_db
    /\ v5_in_map' = (v5_in_map \/ ok)
    /\ v5_faults' = IF ok THEN v5_faults ELSE [v5_faults EXCEPT !.log = @ + 1]

\* One log_progress call at position `from`.
LogWriteV05(from, entry, to) ==
    /\ v5_pc = from
    /\ \E ok \in OutcomesV05 : log_progress_v05(entry, ok)
    /\ v5_pc' = to
    /\ UNCHANGED <<rest_v05, v5_status, v5_total_rows, v5_results_db, v5_upfile, v5_idx,
                   v5_results, v5_exc>>

LogStepV05(from, entry, to) == LogWriteV05(from, entry, to) /\ UNCHANGED v5_snap

\* One db.session.commit() of the worker at position `from`, writing status `st`
\* (the status itself when it does not change), total_rows `total` and the
\* ProcessingResult rows `rows`; when it raises, the exception reaches `handler`.
CommitV05(from, st, total, rows, to, handler) ==
    /\ v5_pc = from
    /\ \E ok \in OutcomesV05 :
        /\ v5_faults' = IF ok THEN v5_faults ELSE [v5_faults EXCEPT !.commit = @ + 1]
        /\ v5_status' = IF ok THEN st ELSE v5_status
        /\ v5_total_rows' = IF ok THEN total ELSE v5_total_rows
        /\ v5_results_db' = IF ok THEN v5_results_db \o rows ELSE v5_results_db
        /\ v5_pc' = IF ok THEN to ELSE handler
    /\ UNCHANGED <<rest_v05, v5_logs_db, v5_in_map, v5_snap, v5_upfile, v5_idx, v5_results, v5_exc>>

\* Lines 229-243: the Job row is committed with status 'pending' and the thread
\* is started.
upload_v05 ==
    /\ v5_pc = "idle"
    /\ v5_status' = "pending"
    /\ v5_pc' = "a_processing"
    /\ UNCHANGED <<rest_v05, v5_total_rows, v5_results_db, v5_logs_db, v5_in_map, v5_snap, v5_upfile,
                   v5_idx, v5_results, v5_exc, v5_faults>>

\* Lines 404-405.
a_processing ==
    CommitV05("a_processing", "processing", v5_total_rows, <<>>, "a_log_start", "e_log")

\* Line 407.
a_log_start ==
    LogStepV05("a_log_start", LogEntry("info", "Starting file processing...", 0, {}), "a_read")

NRowsV05 == Len(v5_upload.rows)

missing_columns_v05 == required_columns \ v5_upload.cols

\* Lines 410-416: pd.read_excel raises on a sheet it cannot read; a missing
\* column raises ValueError, whose text names the missing columns.
a_read ==
    /\ v5_pc = "a_read"
    /\ IF ~v5_upload.readable
       THEN v5_pc' = "e_log" /\ v5_exc' = {}
       ELSE IF missing_columns_v05 # {}
            THEN v5_pc' = "e_log" /\ v5_exc' = missing_columns_v05
            ELSE v5_pc' = "a_detect" /\ v5_exc' = v5_exc
    /\ UNCHANGED <<rest_v05, v5_status, v5_total_rows, v5_results_db, v5_logs_db, v5_in_map, v5_snap,
                   v5_upfile, v5_idx, v5_results, v5_faults>>

\* Lines 418-450: a date column at position C is logged; the filter is applied
\* when there is one, and its absence is logged when a filter was asked for.
a_detect ==
    IF v5_pc = "a_detect" /\ (v5_upload.date_column \/ v5_upload.date_from)
    THEN LogStepV05("a_detect",
                    LogEntry(IF v5_upload.date_column THEN "info" ELSE "warning",
                             IF v5_upload.date_column THEN "Detected date column at position C"
                             ELSE "Date filtering requested but no date column found in file",
                             0, {})
                    @@ [progress |-> [num |-> 5, den |-> 1]],
                    "a_total")
    ELSE /\ v5_pc = "a_detect"
         /\ v5_pc' = "a_total"
         /\ UNCHANGED <<rest_v05, v5_status, v5_total_rows, v5_results_db, v5_logs_db,
                        v5_in_map, v5_snap, v5_upfile, v5_idx, v5_results, v5_exc, v5_faults>>

\* Lines 452-454.
a_total ==
    CommitV05("a_total", v5_status, NRowsV05, <<>>, "a_log_rows", "e_log")

\* Line 456.
a_log_rows ==
    LogStepV05("a_log_rows",
               LogEntry("info", "Processing rows...", 0, {})
               @@ [progress |-> [num |-> 10, den |-> 1]],
               "l_next")

\* Line 460: for idx, row in df.iterrows().
l_next ==
    /\ v5_pc = "l_next"
    /\ IF v5_idx < NRowsV05
       THEN v5_idx' = v5_idx + 1 /\ v5_pc' = "l_score"
       ELSE v5_idx' = v5_idx /\ v5_pc' = "b_bulk"
    /\ UNCHANGED <<rest_v05, v5_status, v5_total_rows, v5_results_db, v5_logs_db, v5_in_map, v5_snap,
                   v5_upfile, v5_results, v5_exc, v5_faults>>

\* Lines 461-481: the row is scored and its result is appended to results; an
\* exception of the engine reaches the except of line 490.
l_score ==
    /\ v5_pc = "l_score"
    /\ IF EngineRaises(v5_upload.rows[v5_idx])
       THEN v5_results' = v5_results /\ v5_pc' = "l_error"
       ELSE v5_results' = Append(v5_results, v5_idx) /\ v5_pc' = "l_progress"
    /\ UNCHANGED <<rest_v05, v5_status, v5_total_rows, v5_results_db, v5_logs_db, v5_in_map, v5_snap,
                   v5_upfile, v5_idx, v5_exc, v5_faults>>

\* idx + 1 of the code for the row at position n of df: iterrows yields the
\* row's label in the sheet, which the date filter leaves as it was.
RowLabel(n) == v5_upload.skipped + n

\* Line 484, for idx + 1 = label: (idx + 1) % 10 == 0 or idx == total_rows - 1.
ProgressDue(label, total) == label % ProgressEvery = 0 \/ label = total

\* Lines 484-488, still inside the try of line 461 and after results.append:
\* progress_updates[session_id] raises KeyError when no log write has succeeded
\* so far.
l_progress ==
    IF v5_pc = "l_progress" /\ ProgressDue(RowLabel(v5_idx), NRowsV05) /\ v5_in_map
    THEN /\ LogWriteV05("l_progress",
                        LogEntry("info", "Processed row", v5_idx, {})
                        @@ [progress |-> [num |-> 10 * NRowsV05 + RowLabel(v5_idx) * 80,
                                          den |-> NRowsV05]],
                        "l_next")
         /\ v5_snap' = [processed_rows |-> RowLabel(v5_idx), total_rows |-> NRowsV05]
    ELSE /\ v5_pc = "l_progress"
         /\ v5_pc' = IF ProgressDue(RowLabel(v5_idx), NRowsV05) THEN "l_error" ELSE "l_next"
         /\ UNCHANGED <<rest_v05, v5_status, v5_total_rows, v5_results_db, v5_logs_db,
                        v5_in_map, v5_snap, v5_upfile, v5_idx, v5_results, v5_exc, v5_faults>>

\* Lines 490-492.
l_error ==
    LogStepV05("l_error", LogEntry("error", "Error processing row", v5_idx, {}), "l_next")

\* Lines 495-496.
b_bulk ==
    CommitV05("b_bulk", v5_status, v5_total_rows, v5_results, "b_log_excel", "e_log")

\* Line 498.
b_log_excel ==
    LogStepV05("b_log_excel",
               LogEntry("info", "Creating enhanced Excel file...", 0, {})
               @@ [progress |-> [num |-> 90, den |-> 1]],
               "b_completed")

\* Lines 500-544: the rows of results are scored again, the enhanced sheet is
\* written, and the status is committed.
b_completed ==
    CommitV05("b_completed", "completed", v5_total_rows, <<>>, "b_log_done", "e_log")

\* Line 546.
b_log_done ==
    LogStepV05("b_log_done",
               LogEntry("info", "Processing completed successfully!", 0, {})
               @@ [progress |-> [num |-> 100, den |-> 1]],
               "f_remove")

\* Line 549: 'Processing failed: ' followed by the text of the exception.
e_log ==
    LogStepV05("e_log", LogEntry("error", "Processing failed", 0, v5_exc), "e_failed")

\* Lines 550-551: when this commit raises, the exception leaves the thread
\* through the finally of line 553.
e_failed ==
    CommitV05("e_failed", "failed", v5_total_rows, <<>>, "f_remove", "f_remove")

\* Lines 553-556.
f_remove ==
    /\ v5_pc = "f_remove"
    /\ v5_upfile' = FALSE
    /\ v5_pc' = "done"
    /\ UNCHANGED <<rest_v05, v5_status, v5_total_rows, v5_results_db, v5_logs_db, v5_in_map, v5_snap,
                   v5_idx, v5_results, v5_exc, v5_faults>>

\* src/app_v05.py: progress_stream.generate, lines 369-378 of one round of a
\* subscriber: data is the live dict, and the counts read from the database
\* are stored into it before it is sent.
stream_v05 ==
    /\ v5_status # "none"
    /\ v5_in_map
    /\ v5_snap' = [processed_rows |-> Len(v5_results_db), total_rows |-> v5_total_rows]
    /\ UNCHANGED <<rest_v05, v5_status, v5_total_rows, v5_results_db, v5_logs_db, v5_in_map,
                   v5_upfile, v5_pc, v5_idx, v5_results, v5_exc, v5_faults>>

process_file_async ==
    \/ a_processing \/ a_log_start \/ a_read \/ a_detect \/ a_total \/ a_log_rows
    \/ l_next \/ l_score \/ l_progress \/ l_error
    \/ b_bulk \/ b_log_excel \/ b_completed \/ b_log_done
    \/ e_log \/ e_failed \/ f_remove

TerminatedV05 == v5_pc = "done"

InitV05 ==
    /\ v5_upload \in UploadsV05
    /\ v5_status = "none"
    /\ v5_total_rows = 0
    /\ v5_results_db = <<>>
    /\ v5_logs_db = <<>>
    /\ v5_in_map = FALSE
    /\ v5_snap = NoSnapV05
    /\ v5_upfile = TRUE
    /\ v5_pc = "idle"
    /\ v5_idx = 0
    /\ v5_results = <<>>
    /\ v5_exc = {}
    /\ v5_faults = [log |-> 0, commit |-> 0]

NoV05 ==
    /\ v5_upload = [readable |-> FALSE, cols |-> required_columns, rows |-> <<>>,
                    date_column |-> FALSE, date_from |-> FALSE, skipped |-> 0]
    /\ v5_status = "none"
    /\ v5_total_rows = 0
    /\ v5_results_db = <<>>
    /\ v5_logs_db = <<>>
    /\ v5_in_map = FALSE
    /\ v5_snap = NoSnapV05
    /\ v5_upfile = FALSE
    /\ v5_pc = "absent"
    /\ v5_idx = 0
    /\ v5_results = <<>>
    /\ v5_exc = {}
    /\ v5_faults = [log |-> 0, commit |-> 0]

-----------------------------------------------------------------------------
\* src/app.py: lead scoring (calculate_enhanced_score and its detectors)
\*
\* Names, emails and domains are strings.  The operators below are the Python
\* string operations the scoring code uses, on ASCII text.

At(s, i) == SubSeq(s, i, i)

\* sub in s
Contains(s, sub) ==
    \E i \in 0..(Len(s) - Len(sub)) : SubSeq(s, i + 1, i + Len(sub)) = sub

\* any(w in s for w in words)
AnyIn(words, s) == \E w \in words : Contains(s, w)

StartsWith(s, p) == Len(p) <= Len(s) /\ SubSeq(s, 1, Len(p)) = p

EndsWith(s, p) == Len(p) <= Len(s) /\ SubSeq(s, Len(s) - Len(p) + 1, Len(s)) = p

LowerLetters == "abcdefghijklmnopqrstuvwxyz"

UpperLetters == "ABCDEFGHIJKLMNOPQRSTUVWXYZ"

IsDigit(c) == c \in {"0", "1", "2", "3", "4", "5", "6", "7", "8", "9"}

IsLetter(c) == Contains(LowerLetters, c) \/ Contains(UpperLetters, c)

\* The character of `to` at the place c has in `from`; c itself when it has none.
MapChar(c, from, to) ==
    IF Contains(from, c)
    THEN At(to, CHOOSE i \in 1..Len(from) : At(from, i) = c)
    ELSE c

RECURSIVE MapStr(_, _, _)
MapStr(s, from, to) ==
    IF s = "" THEN ""
    ELSE MapChar(At(s, 1), from, to) \o MapStr(SubSeq(s, 2, Len(s)), from, to)

\* s.lower(), s.upper()
lower(s) == MapStr(s, UpperLetters, LowerLetters)

upper(s) == MapStr(s, LowerLetters, UpperLetters)

\* s.isalpha()
isalpha(s) == s # "" /\ \A i \in 1..Len(s) : IsLetter(At(s, i))

\* any(char.isdigit() for char in s)
HasDigit(s) == \E i \in 1..Len(s) : IsDigit(At(s, i))

\* s.split(sep) for a one-character separator
RECURSIVE split(_, _)
split(s, sep) ==
    IF ~Contains(s, sep) THEN <<s>>
    ELSE LET i == CHOOSE k \in 1..Len(s) :
                      At(s, k) = sep /\ \A j \in 1..(k - 1) : At(s, j) # sep
         IN  <<SubSeq(s, 1, i - 1)>> \o split(SubSeq(s, i + 1, Len(s)), sep)

\* s.split(): the words between runs of blanks
words(s) == SelectSeq(split(s, " "), LAMBDA w : w # "")

\* s.strip()
RECURSIVE strip(_)
strip(s) ==
    IF s = "" THEN ""
    ELSE IF At(s, 1) = " " THEN strip(SubSeq(s, 2, Len(s)))
    ELSE IF At(s, Len(s)) = " " THEN strip(SubSeq(s, 1, Len(s) - 1))
    ELSE s

\* len(set(s))
DistinctChars(s) == Cardinality({At(s, i) : i \in 1..Len(s)})

\* re.search(r'(19[4-9][0-9]|20[0-1][0-9])', s)
HasBirthYear(s) ==
    \E i \in 1..(Len(s) - 3) :
        /\ IsDigit(At(s, i + 3))
        /\ \/ SubSeq(s, i, i + 1) = "19" /\ At(s, i + 2) \in {"4", "5", "6", "7", "8", "9"}
           \/ SubSeq(s, i, i + 1) = "20" /\ At(s, i + 2) \in {"0", "1"}

\* re.search(r'\d{3,}', s)
HasDigitRun(s) ==
    \E i \in 1..(Len(s) - 2) : \A j \in i..(i + 2) : IsDigit(At(s, j))

\* re.search(r'\d{4,}$', s): a run one digit longer than the code asks for.
EndsWithLongDigitRun(s) ==
    Len(s) >= 4 /\ \A j \in (Len(s) - 3)..Len(s) : IsDigit(At(s, j))

\* re.search(r'\d{3,}$', s)
EndsWithDigitRun(s) ==
    Len(s) >= 3 /\ \A j \in (Len(s) - 2)..Len(s) : IsDigit(At(s, j))

\* Python's None, where the code tells it from a string.
None == "None"

\* not x
Falsy(x) == x = None \/ x = ""

TELECOM_OPERATORS ==
    {"airtel.in", "att.com", "bell.ca", "bharti.in", "bt.com", "celcom.com.my",
     "chinamobile.com", "chinatelecom.com.cn", "chinaunicom.com", "digi.com.my",
     "ee.co.uk", "elisa.fi", "etisalat.ae", "idea.in", "jio.com", "kddi.com", "kpn.com",
     "kt.com", "lguplus.co.kr", "mtn.com", "ntt.com", "nttdocomo.com", "o2.co.uk",
     "orange.com", "orange.es", "orange.fr", "orange.pl", "proximus.be", "rogers.com",
     "singtel.com", "sktelecom.com", "softbank.jp", "sprint.com", "stc.com.sa",
     "swisscom.ch", "t-mobile.at", "t-mobile.com", "t-mobile.de", "t-mobile.nl",
     "tele2.com", "telecom.co.nz", "telecom.com.au", "telecom.pt", "telefonica.com",
     "telefonica.de", "telefonica.es", "telekom.de", "telenor.com", "telia.com",
     "telus.com", "three.co.uk", "tmobile.com", "verizon.com", "vodafone.co.uk",
     "vodafone.com", "vodafone.de", "vodafone.it", "zain.com"}

ENTERPRISE_DOMAINS ==
    {"airbus.com", "amazon.com", "amd.com", "apple.com", "bankofamerica.com", "bmw.com",
     "boeing.com", "bp.com", "chevron.com", "cisco.com", "coca-cola.com", "costco.com",
     "dell.com", "exxonmobil.com", "facebook.com", "ford.com", "ge.com", "gm.com",
     "goldmansachs.com", "google.com", "homedepot.com", "hp.com", "huawei.com",
     "ibm.com", "intel.com", "jpmorgan.com", "lenovo.com", "lg.com", "mastercard.com",
     "mcdonalds.com", "mercedes-benz.com", "meta.com", "microsoft.com",
     "morganstanley.com", "netflix.com", "nvidia.com", "oracle.com", "pepsi.com",
     "qualcomm.com", "salesforce.com", "samsung.com", "shell.com", "siemens.com",
     "sony.com", "starbucks.com", "target.com", "tesla.com", "totalenergies.com",
     "toyota.com", "visa.com", "volkswagen.com", "walmart.com", "wellsfargo.com",
     "xiaomi.com"}

FREE_PROVIDERS ==
    {"188.com", "aol.com", "freenet.de", "gmail.co.uk", "gmail.com", "gmail.de",
     "gmx.com", "googlemail.com", "hotmail.com", "icloud.com", "live.com", "mac.com",
     "mail.com", "me.com", "msn.com", "outlook.com", "proton.me", "protonmail.com",
     "web.de", "yahoo.ca", "yahoo.co.uk", "yahoo.com", "yahoo.de", "yahoo.fr",
     "yandex.com"}

is_free_provider(domain) ==
    IF Falsy(domain) THEN FALSE
    ELSE \/ domain \in FREE_PROVIDERS
         \/ StartsWith(domain, "outlook.")
         \/ StartsWith(domain, "yahoo.")
         \/ StartsWith(domain, "hotmail.")

TELECOM_TLDS ==
    {".at", ".be", ".bg", ".ch", ".co.il", ".co.uk", ".cz", ".de", ".dk", ".ee", ".es",
     ".fi", ".fr", ".hr", ".hu", ".io", ".it", ".lt", ".lv", ".net", ".nl", ".no",
     ".pl", ".pt", ".ro", ".se", ".si", ".sk", ".tel", ".us"}

\* str(email).split('@')[1].lower().strip(), or None
extract_domain(email) ==
    IF Falsy(email) \/ ~Contains(email, "@") THEN None
    ELSE strip(lower(split(email, "@")[2]))

get_tld(domain) ==
    IF Falsy(domain) THEN None
    ELSE LET parts == split(domain, ".")
             n == Len(parts)
         IN  IF n < 2 THEN None
             ELSE IF n >= 3 /\ parts[n - 1] \in {"co", "com", "org", "net", "gov", "edu"}
                  THEN "." \o parts[n - 1] \o "." \o parts[n]
                  ELSE "." \o parts[n]

\* email.split('@')[0].lower() if '@' in email else ""
local_part_of(email) ==
    IF Contains(email, "@") THEN lower(split(email, "@")[1]) ELSE ""

\* What a detector returns: its score and the reasons it joins with ", ".
Hit(points, reason) == [score |-> points, reasons |-> <<reason>>]

Miss == [score |-> 0, reasons |-> <<>>]

RECURSIVE Sum(_)
Sum(parts) ==
    IF parts = <<>> THEN Miss
    ELSE LET rest == Sum(Tail(parts))
         IN  [score |-> Head(parts).score + rest.score,
              reasons |-> Head(parts).reasons \o rest.reasons]

analyze_email_pattern(email) ==
    IF Falsy(email) \/ ~Contains(email, "@") THEN Hit(0, "Invalid email format")
    ELSE
    LET local_part == lower(split(email, "@")[1])
        parts == split(local_part, ".")
        format ==
            IF Contains(local_part, ".") /\ Len(parts) = 2
               /\ 2 <= Len(parts[1]) /\ Len(parts[1]) <= 15
               /\ 2 <= Len(parts[2]) /\ Len(parts[2]) <= 15
            THEN IF isalpha(parts[1]) /\ isalpha(parts[2])
                 THEN Hit(15, "Professional firstname.lastname format (+15)")
                 ELSE IF Len(parts[1]) = 1 /\ isalpha(parts[2])
                      THEN Hit(12, "Professional f.lastname format (+12)")
                      ELSE Hit(8, "Professional dotted format (+8)")
            ELSE Miss
        executive_roles ==
            {"ceo", "president", "director", "vp", "vice.president", "managing.director"}
        management_roles ==
            {"manager", "lead", "head", "supervisor", "chief"}
        technical_roles ==
            {"admin", "it", "tech", "developer", "engineer", "dev"}
        role ==
            IF AnyIn(executive_roles, local_part) THEN Hit(20, "Executive role email (+20)")
            ELSE IF AnyIn(management_roles, local_part)
                 THEN Hit(15, "Management role email (+15)")
            ELSE IF AnyIn(technical_roles, local_part)
                 THEN Hit(10, "Technical role email (+10)")
            ELSE Miss
        generic_emails ==
            {"info", "contact", "sales", "support", "hello", "enquiry", "inquiry"}
        negative_emails ==
            {"noreply", "no.reply", "donotreply", "automated", "bulk", "marketing"}
        generic ==
            IF AnyIn(generic_emails, local_part) THEN Hit(-5, "Generic email address (-5)")
            ELSE IF AnyIn(negative_emails, local_part)
                 THEN Hit(-15, "Automated/bulk email address (-15)")
            ELSE Miss
        length ==
            IF 6 <= Len(local_part) /\ Len(local_part) <= 12
            THEN Hit(5, "Professional username length (+5)")
            ELSE IF Len(local_part) < 4 \/ Len(local_part) > 20
                 THEN Hit(-5, "Unprofessional username length (-5)")
            ELSE Miss
        numbers ==
            IF isalpha(local_part) THEN Hit(5, "Alphabetic username (+5)")
            ELSE IF HasDigit(local_part)
                 THEN IF HasBirthYear(local_part)
                      THEN Hit(-3, "Contains birth year - personal email (-3)")
                      ELSE IF HasDigitRun(local_part)
                           THEN Hit(-10, "Random numbers - generated account (-10)")
                           ELSE Miss
            ELSE Miss
    IN  Sum(<<format, role, generic, length, numbers>>)

analyze_name_email_consistency(name, email) ==
    IF Falsy(name) \/ Falsy(email) \/ ~Contains(email, "@")
    THEN Hit(0, "Missing name or email")
    ELSE
    LET local_part == lower(split(email, "@")[1])
        name_parts == words(lower(name))
        first_name == name_parts[1]
        last_name == name_parts[Len(name_parts)]
    IN  IF Len(name_parts) >= 2
        THEN IF first_name \o "." \o last_name = local_part
             THEN Hit(10, "Perfect name-email match (+10)")
             ELSE IF At(first_name, 1) \o "." \o last_name = local_part
                  THEN Hit(8, "Initial.lastname match (+8)")
             ELSE IF first_name = local_part \/ last_name = local_part
                  THEN Hit(6, "Partial name match (+6)")
             ELSE IF Contains(local_part, first_name) /\ Contains(local_part, last_name)
                  THEN Hit(5, "Name components in email (+5)")
             ELSE IF \E i \in 1..Len(name_parts) : Contains(local_part, name_parts[i])
                  THEN Hit(3, "Name part in email (+3)")
             ELSE IF isalpha(local_part) /\ Len(local_part) > 5
                  THEN Hit(-5, "Name-email mismatch (-5)")
             ELSE Miss
        ELSE Miss

detect_executive_indicators(name, email) ==
    IF Falsy(name) /\ Falsy(email) THEN Hit(0, "Missing name and email")
    ELSE
    LET name_upper == IF Falsy(name) THEN "" ELSE upper(name)
        executive_titles ==
            {"CEO", "CTO", "CFO", "CMO", "COO", "PRESIDENT", "VP", "VICE PRESIDENT",
             "MANAGING DIRECTOR", "EXECUTIVE DIRECTOR", "CHAIRMAN", "FOUNDER"}
        management_titles ==
            {"DIRECTOR", "MANAGER", "HEAD OF", "LEAD", "SENIOR", "PRINCIPAL"}
        professional_titles ==
            {"DR.", "DR", "PROF.", "PROFESSOR", "MR.", "MS.", "MRS."}
    IN  IF AnyIn(executive_titles, name_upper) THEN Hit(25, "Executive title in name (+25)")
        ELSE IF AnyIn(management_titles, name_upper)
             THEN Hit(15, "Management title in name (+15)")
        ELSE IF AnyIn(professional_titles, name_upper)
             THEN Hit(10, "Professional title in name (+10)")
        ELSE Miss

detect_technical_professional(name, email, domain) ==
    IF Falsy(email) THEN Hit(0, "Missing email")
    ELSE
    LET local_part == local_part_of(email)
        domain_lower == IF Falsy(domain) THEN "" ELSE lower(domain)
        technical_patterns ==
            {"dev", "developer", "tech", "engineer", "eng", "it", "admin", "sysadmin",
             "devops", "architect", "programmer", "coder"}
        tech_domains ==
            {".io", ".dev", ".tech", ".ai", ".cloud"}
        prog_terms ==
            {"developer", "engineer", "programmer", "architect", "devops", "sysadmin"}
    IN  Sum(<<IF AnyIn(technical_patterns, local_part)
              THEN Hit(15, "Technical role in email (+15)") ELSE Miss,
              IF AnyIn(tech_domains, domain_lower)
              THEN Hit(10, "Technical domain TLD (+10)") ELSE Miss,
              IF ~Falsy(name) /\ AnyIn(prog_terms, lower(name))
              THEN Hit(12, "Technical role in name (+12)") ELSE Miss>>)

classify_b2b_vs_b2c(name, email, domain) ==
    IF Falsy(email) \/ Falsy(domain) THEN Hit(0, "Missing email or domain")
    ELSE
    LET local_part == local_part_of(email)
        corporate_indicators ==
            {"corp", "company", "group", "ltd", "llc", "inc"}
        consumer_patterns ==
            {"nickname", "personal", "family"}
    IN  Sum(<<IF Contains(local_part, ".") /\ ~HasDigit(local_part)
              THEN Hit(10, "B2B email pattern (+10)") ELSE Miss,
              IF AnyIn(corporate_indicators, lower(domain))
              THEN Hit(8, "Corporate domain indicator (+8)") ELSE Miss,
              IF AnyIn(consumer_patterns, local_part)
              THEN Hit(-5, "Consumer email pattern (-5)") ELSE Miss,
              IF HasBirthYear(local_part)
              THEN Hit(-3, "Personal birth year pattern (-3)") ELSE Miss>>)

\* ''.join(parts)
RECURSIVE Join(_)
Join(parts) == IF parts = <<>> THEN "" ELSE Head(parts) \o Join(Tail(parts))

detect_suspicious_patterns(name, email) ==
    IF Falsy(email) THEN Hit(0, "Missing email")
    ELSE
    LET local_part == local_part_of(email)
        fake_patterns ==
            {"test", "temp", "fake", "dummy", "sample", "example"}
        bulk_patterns ==
            {"newsletter", "marketing", "bulk", "mass", "list"}
        name_parts == words(lower(name))
        name_clean == Join(name_parts)
    IN  Sum(<<IF EndsWithDigitRun(local_part)
              THEN Hit(-10, "Sequential number pattern (-10)") ELSE Miss,
              \* len(set(local_part)) < len(local_part) * 0.7
              IF 10 * DistinctChars(local_part) < 7 * Len(local_part)
              THEN Hit(-15, "Low character diversity - generated (-15)") ELSE Miss,
              IF AnyIn(fake_patterns, local_part)
              THEN Hit(-20, "Test/fake account pattern (-20)") ELSE Miss,
              IF AnyIn(bulk_patterns, local_part)
              THEN Hit(-15, "Bulk email pattern (-15)") ELSE Miss,
              IF /\ ~Falsy(name)
                 /\ Len(name_clean) > 3
                 /\ ~Contains(local_part, name_clean)
                 /\ ~\E i \in 1..Len(name_parts) : Contains(local_part, name_parts[i])
                 /\ isalpha(local_part)
                 /\ Len(local_part) > 6
              THEN Hit(-20, "Severe name-email mismatch (-20)") ELSE Miss>>)

\* for tld, (country, points) in table.items(): the first entry the domain ends
\* with scores, and the loop breaks.
FirstGeoMatch(table, domain_lower) ==
    LET hits == {i \in 1..Len(table) : EndsWith(domain_lower, table[i].tld)}
    IN  IF hits = {} THEN Miss
        ELSE LET i == CHOOSE k \in hits : \A j \in hits : k <= j
             IN  Hit(table[i].points, table[i].reason)

analyze_geographic_intelligence(domain) ==
    IF Falsy(domain) THEN Hit(0, "Missing domain")
    ELSE
    LET premium_geo_tlds ==
            <<[tld |-> ".de", points |-> 15, reason |-> "Germany domain - telecom-friendly (+15)"],
              [tld |-> ".nl", points |-> 15, reason |-> "Netherlands domain - telecom-friendly (+15)"],
              [tld |-> ".ch", points |-> 15, reason |-> "Switzerland domain - telecom-friendly (+15)"],
              [tld |-> ".at", points |-> 15, reason |-> "Austria domain - telecom-friendly (+15)"],
              [tld |-> ".se", points |-> 12, reason |-> "Sweden domain - telecom-friendly (+12)"],
              [tld |-> ".no", points |-> 12, reason |-> "Norway domain - telecom-friendly (+12)"],
              [tld |-> ".dk", points |-> 12, reason |-> "Denmark domain - telecom-friendly (+12)"],
              [tld |-> ".fi", points |-> 12, reason |-> "Finland domain - telecom-friendly (+12)"]>>
        good_geo_tlds ==
            <<[tld |-> ".sg", points |-> 10, reason |-> "Singapore domain - business-friendly (+10)"],
              [tld |-> ".hk", points |-> 10, reason |-> "Hong Kong domain - business-friendly (+10)"],
              [tld |-> ".au", points |-> 10, reason |-> "Australia domain - business-friendly (+10)"],
              [tld |-> ".ca", points |-> 12, reason |-> "Canada domain - business-friendly (+12)"],
              [tld |-> ".uk", points |-> 12, reason |-> "United Kingdom domain - business-friendly (+12)"],
              [tld |-> ".fr", points |-> 12, reason |-> "France domain - business-friendly (+12)"],
              [tld |-> ".jp", points |-> 8, reason |-> "Japan domain - business-friendly (+8)"],
              [tld |-> ".kr", points |-> 8, reason |-> "South Korea domain - business-friendly (+8)"]>>
        restricted_geo_tlds ==
            <<[tld |-> ".cn", points |-> -20, reason |-> "China domain - restricted/sanctioned (-20)"],
              [tld |-> ".ru", points |-> -50, reason |-> "Russia domain - restricted/sanctioned (-50)"],
              [tld |-> ".by", points |-> -30, reason |-> "Belarus domain - restricted/sanctioned (-30)"],
              [tld |-> ".ir", points |-> -40, reason |-> "Iran domain - restricted/sanctioned (-40)"],
              [tld |-> ".kp", points |-> -50, reason |-> "North Korea domain - restricted/sanctioned (-50)"]>>
    IN  Sum(<<FirstGeoMatch(premium_geo_tlds, lower(domain)),
              FirstGeoMatch(good_geo_tlds, lower(domain)),
              FirstGeoMatch(restricted_geo_tlds, lower(domain))>>)

\* The score and the reason; the industry name is not modelled.
detect_industry_vertical_indicators(email, domain) ==
    IF Falsy(email) /\ Falsy(domain) THEN Hit(0, "Missing email and domain")
    ELSE
    LET local_part == IF Falsy(email) THEN "" ELSE local_part_of(email)
        domain_lower == IF Falsy(domain) THEN "" ELSE lower(domain)
        Indicates(indicators) ==
            \E w \in indicators : Contains(domain_lower, w) \/ Contains(local_part, w)
        telecom_indicators ==
            {"telecom", "telco", "mobile", "cellular", "wireless", "network", "isp",
             "broadband", "5g", "fiber", "voip", "pbx"}
        tech_indicators ==
            {"tech", "software", "cloud", "saas", "digital", "cyber", "data", "ai",
             "ml", "iot", "api", "platform"}
        finance_indicators ==
            {"bank", "finance", "financial", "invest", "capital", "fund", "insurance",
             "fintech", "trading", "wealth"}
        healthcare_indicators ==
            {"health", "medical", "hospital", "clinic", "pharma", "bio", "medtech",
             "healthcare", "wellness"}
        manufacturing_indicators ==
            {"manufacturing", "industrial", "factory", "production", "automotive",
             "aerospace", "chemical", "steel"}
    IN  IF Indicates(telecom_indicators) THEN Hit(20, "Telecom industry indicators (+20)")
        ELSE IF Indicates(tech_indicators)
             THEN Hit(15, "Technology sector indicators (+15)")
        ELSE IF Indicates(finance_indicators)
             THEN Hit(12, "Financial services indicators (+12)")
        ELSE IF Indicates(healthcare_indicators)
             THEN Hit(8, "Healthcare industry indicators (+8)")
        ELSE IF Indicates(manufacturing_indicators)
             THEN Hit(10, "Manufacturing industry indicators (+10)")
        ELSE Miss

\* The total as accumulated, without the cap of line 905.
ClampScore_uncapped(score) == score

\* A cap that keeps state between calls: each call after the first returns
\* one point less.
ClampScore_stateful(score) ==
    (IF score > 150 THEN 150 ELSE IF score < -50 THEN -50 ELSE score) - sc_calls

\* max(-50, min(150, score))
ClampScore(score) ==
    IF score > 150 THEN 150 ELSE IF score < -50 THEN -50 ELSE score

\* The category of the domain (lines 825-841).
BaseDomain(domain) ==
    IF is_free_provider(domain) THEN Hit(5, "Free email provider (+5)")
    ELSE IF domain \in TELECOM_OPERATORS THEN Hit(40, "Telecom operator domain (+40)")
    ELSE IF domain \in ENTERPRISE_DOMAINS THEN Hit(30, "Large enterprise domain (+30)")
    ELSE Hit(15, "Corporate domain (+15)")

\* One of the three profile bonuses (lines 868-899).
ProfileBonus(verified, match, points_match, points_found, site) ==
    IF ~verified THEN Miss
    ELSE IF match THEN Hit(points_match, site \o " profile verified and matches")
    ELSE Hit(points_found, site \o " profile found but no exact match")

\* The liveness bonus given to every domain, free providers included.
DomainAlive_unconditional(domain, domain_alive) ==
    IF domain_alive THEN Hit(20, "Domain is alive and accessible (+20)")
    ELSE Hit(0, "Domain not accessible (0)")

\* Domain alive verification, skipped for free providers (lines 848-856).
DomainAlive(domain, domain_alive) ==
    IF ~is_free_provider(domain)
    THEN IF domain_alive THEN Hit(20, "Domain is alive and accessible (+20)")
         ELSE Hit(0, "Domain not accessible (0)")
    ELSE Hit(0, "Free email provider - domain check skipped")

\* The score, the reasons that ", ".join(reasons) joins, and whether the
\* sanctions branch returned.
calculate_enhanced_score(domain, name, email, flags) ==
    IF Falsy(domain)
    THEN [score |-> 0, reasons |-> <<"Invalid domain">>, sanctions_applied |-> FALSE]
    ELSE IF get_tld(domain) = ".ru"
    THEN [score |-> -50, reasons |-> <<"Russian domain - sanctions applied (-50)">>,
          sanctions_applied |-> TRUE]
    ELSE
    LET tld == get_tld(domain)
        tld_bonus ==
            IF tld \in TELECOM_TLDS THEN Hit(10, "Telecom-friendly TLD (+10)") ELSE Miss
        name_format ==
            IF ~Falsy(name) /\ Len(words(strip(name))) >= 2
            THEN Hit(10, "Professional name format (+10)")
            ELSE IF ~Falsy(name) /\ Len(strip(name)) > 0
                 THEN Hit(5, "Single name provided (+5)")
            ELSE Miss
        total ==
            Sum(<<analyze_email_pattern(email),
                  analyze_name_email_consistency(name, email),
                  detect_executive_indicators(name, email),
                  detect_technical_professional(name, email, domain),
                  classify_b2b_vs_b2c(name, email, domain),
                  detect_suspicious_patterns(name, email),
                  analyze_geographic_intelligence(domain),
                  detect_industry_vertical_indicators(email, domain),
                  BaseDomain(domain),
                  tld_bonus,
                  DomainAlive(domain, flags.domain_alive),
                  name_format,
                  ProfileBonus(flags.linkedin_verified, flags.linkedin_match, 10, 5, "LinkedIn"),
                  ProfileBonus(flags.facebook_verified, flags.facebook_match, 10, 5, "Facebook"),
                  ProfileBonus(flags.github_verified, flags.github_match, 15, 10, "GitHub")>>)
    IN  [score |-> ClampScore(total.score), reasons |-> total.reasons,
         sanctions_applied |-> FALSE]

\* The leads scored: names and emails as the sheet's cells give them.
Names == {"", "John Smith", "Dr Anna Lee", "madonna", "Ivan Petrov"}

Emails ==
    {"test123@yahoo.com", "john.smith@acme.com", "ivan@mail.ru", "ivan.petrov@gazprom.ru",
     "j.smith@vodafone.com", "info@telecom.de", "admin@shop.co.ru", "bob1985@gmail.com",
     "noreply@corp.io", "Anna.Lee@Example.COM ", "nodomain", "",
     "john.smith@vodafone.com", "test123@spam.co.ru", "a@b@c.com", "user@"}

\* What check_domain_alive and the verify_*_profile calls returned for the row.
Flags ==
    [domain_alive : BOOLEAN,
     linkedin_verified : BOOLEAN, linkedin_match : BOOLEAN,
     facebook_verified : BOOLEAN, facebook_match : BOOLEAN,
     github_verified : BOOLEAN, github_match : BOOLEAN]

NotScored == [score |-> 0, reasons |-> <<>>, sanctions_applied |-> FALSE]

\* Lines 1044-1075 of process_in_background for one row: the domain is
\* extracted from the email cell and the lead is scored.  The same lead is
\* scored again whenever it appears in another row or another job.
score_lead ==
    /\ sc_calls < MaxCalls
    /\ sc_calls' = sc_calls + 1
    /\ sc_domain' = extract_domain(sc_email)
    /\ sc_out' = calculate_enhanced_score(extract_domain(sc_email), sc_name, sc_email, sc_flags)
    /\ sc_scored' = TRUE
    /\ UNCHANGED <<vars_job, vars_stream, vars_v05, vars_poll, vars_engines,
                   sc_name, sc_email, sc_flags>>

InitScore ==
    /\ sc_name \in Names
    /\ sc_email \in Emails
    /\ sc_flags \in Flags
    /\ sc_scored = FALSE
    /\ sc_calls = 0
    /\ sc_domain = None
    /\ sc_out = NotScored

NoScore ==
    /\ sc_name = ""
    /\ sc_email = ""
    /\ sc_flags = [domain_alive |-> FALSE,
                   linkedin_verified |-> FALSE, linkedin_match |-> FALSE,
                   facebook_verified |-> FALSE, facebook_match |-> FALSE,
                   github_verified |-> FALSE, github_match |-> FALSE]
    /\ sc_scored = FALSE
    /\ sc_calls = 0
    /\ sc_domain = None
    /\ sc_out = NotScored

-----------------------------------------------------------------------------
\* src/scoring_engine_didww_enhanced.py: DIDWWScoringEngine.calculate_score,
\* its two calls into company intelligence (lines 649 and 727) and the frames
\* get_company_intelligence and detect_industry put on the stack.

\* The domain of an email that holds '@', by the tests the engine makes on it:
\* is_free_email, domain in telecom_domains, domain in enterprise_domains.
DomainKinds == {"free", "telecom", "enterprise", "corporate"}

rest_engine == <<vars_job, vars_stream, vars_v05, vars_score, vars_poll,
                 opencorporates, company_cache, phone_cache, v6_leads, v6_out>>

\* A call of `callee` from a frame at depth engine.depth: the interpreter
\* raises RecursionError when the stack is full.
Call(callee) ==
    IF engine.depth < MaxDepth
    THEN [engine EXCEPT !.top = callee, !.depth = @ + 1]
    ELSE [engine EXCEPT !.pc = "raised", !.top = "none", !.depth = 0]

\* The frame on top returns and so does every frame below it (none of them
\* makes another call after the one it is waiting for): calculate_score goes
\* on after line 649, or returns its triple after line 727.
Return ==
    [engine EXCEPT !.pc = IF @ = "line_649" THEN "line_727" ELSE "returned",
                   !.top = "none", !.depth = 0]

\* Lines 649 and 727.
calculate_score ==
    /\ engine.pc \in {"line_649", "line_727"}
    /\ engine.top = "none"
    /\ engine' = Call(IF engine.pc = "line_649" THEN "get_company_intelligence"
                      ELSE "detect_industry")
    /\ UNCHANGED rest_engine

\* Lines 250-292: any other corporate domain asks detect_industry (line 286).
get_company_intelligence ==
    /\ engine.top = "get_company_intelligence"
    /\ engine' = IF engine.domain \in {"free", "enterprise", "telecom"}
                 THEN Return ELSE Call("detect_industry")
    /\ UNCHANGED rest_engine

\* Lines 533-545: a domain that is neither free nor telecom asks
\* get_company_intelligence (line 543).
detect_industry ==
    /\ engine.top = "detect_industry"
    /\ engine' = IF engine.domain \in {"free", "telecom"}
                 THEN Return ELSE Call("get_company_intelligence")
    /\ UNCHANGED rest_engine

InitEngine ==
    engine \in [domain : DomainKinds, pc : {"line_649"}, top : {"none"}, depth : {0}]

NoEngine == engine = [domain |-> "free", pc |-> "absent", top |-> "none", depth |-> 0]

-----------------------------------------------------------------------------
\* src/scoring_engine_v06.py: EnhancedScoringEngine.calculate_score with the
\* caches of src/company_enrichment.py and src/phone_enrichment.py, in a
\* deployment without Clearbit and Twilio keys (the default '' of both
\* modules' os.environ.get).

rest_v06 == <<vars_job, vars_stream, vars_v05, vars_score, vars_poll, engine>>

NamesV06 == {"Ann Lee", "Bob 2125551234"}

EmailsV06 == {"ann@acme.com", "sales@acme.com", "ann@gmail.com"}

\* What the OpenCorporates search can answer to a query: no company, or the
\* best match by its current_status and by whether it was incorporated more
\* than five years ago.
Companies ==
    {[found |-> FALSE, company_status |-> "unknown", established |-> FALSE],
     [found |-> TRUE, company_status |-> "active", established |-> TRUE],
     [found |-> TRUE, company_status |-> "dissolved", established |-> FALSE]}

\* company_enrichment.py lines 41-89: the cached entry of the domain when
\* there is one, otherwise the answer to the search for company_name, or for
\* the domain root when there is no name (lines 95-96), with the adjustment
\* of lines 191-220.
enrich_company(cache, domain, company_name) ==
    IF domain \in DOMAIN cache THEN cache[domain]
    ELSE LET parts == split(domain, ".")
             domain_root == IF Len(parts) >= 2 THEN parts[Len(parts) - 1] ELSE domain
             search_query == IF company_name # "" THEN company_name ELSE domain_root
             oc_data == opencorporates[search_query]
             score == (IF oc_data.established THEN 5 ELSE 0)
                      + (CASE oc_data.company_status = "dissolved" -> -50
                           [] oc_data.company_status = "inactive" -> -20
                           [] OTHER -> 0)
         IN  [company_status |-> oc_data.company_status,
              established |-> oc_data.established,
              score_adjustment |-> score,
              data_source |-> IF oc_data.found THEN "OpenCorporates" ELSE None]

\* phone_enrichment.py lines 35-87: the cached entry of the email when there
\* is one, otherwise the number found in "name email".  Lines 89-108 on a
\* text whose digits stand in one run: the first pattern takes ten digits of
\* a run of ten or more, and no pattern matches fewer than ten digits.
enrich_phone(cache, email, name, domain) ==
    IF email \in DOMAIN cache THEN cache[email]
    ELSE LET text == name \o " " \o email
             Run(k) == \A j \in k..(k + 9) : IsDigit(At(text, j))
             starts == {k \in 1..(Len(text) - 9) : Run(k)}
             extracted_phone ==
                 IF starts = {} THEN None
                 ELSE LET i == CHOOSE k \in starts : \A m \in starts : k <= m
                      IN  "+1" \o SubSeq(text, i, i + 9)
         IN  [phone_number |-> extracted_phone,
              phone_source |-> IF extracted_phone # None THEN "extracted" ELSE None,
              phone_verified |-> FALSE,
              score_adjustment |-> IF extracted_phone # None THEN 10 ELSE 0]

\* scoring_engine_v06.py lines 49-191 for an email with a domain: the score
\* and the components its reason joins.
calculate_score_v06(name, email, company_data, phone_data) ==
    LET domain == lower(split(email, "@")[2])
        free_email_providers == {"gmail.com", "yahoo.com", "hotmail.com", "outlook.com"}
        telecom_domains == {"verizon.com", "vodafone.com", "twilio.com", "didww.com"}
        enterprise_domains == {"microsoft.com", "google.com", "amazon.com", "apple.com"}
        premium_tlds == {".com", ".org", ".net", ".io", ".co", ".ai", ".cloud"}
        suspicious_tlds == {".tk", ".ml", ".ga", ".cf", ".biz", ".info", ".click"}
        category == CASE domain \in free_email_providers -> "free"
                      [] domain \in telecom_domains -> "telecom"
                      [] domain \in enterprise_domains -> "enterprise"
                      [] OTHER -> "business"
        base == CASE category = "free" -> Hit(0, "Free email provider (0)")
                  [] category = "telecom" -> Hit(30, "Telecom operator domain (+30)")
                  [] category = "enterprise" -> Hit(30, "Enterprise domain (+30)")
                  [] OTHER -> Hit(15, "Business domain (+15)")
        company ==
            IF company_data.score_adjustment = 0 THEN Miss
            ELSE [score |-> company_data.score_adjustment,
                  reasons |->
                      (IF company_data.established
                       THEN <<"Established company 5+ years (+5)">> ELSE <<>>)
                      \o (CASE company_data.company_status = "dissolved" ->
                                   <<"Company dissolved (-50)">>
                            [] company_data.company_status = "inactive" ->
                                   <<"Company inactive (-20)">>
                            [] OTHER -> <<>>)]
        phone ==
            IF phone_data.phone_number = None THEN Miss
            ELSE Hit(phone_data.score_adjustment,
                     IF phone_data.phone_verified THEN "Verified phone number"
                     ELSE "Phone number found")
        dparts == split(domain, ".")
        tld == IF Contains(domain, ".") THEN "." \o dparts[Len(dparts)] ELSE ""
        tld_part == IF tld \in premium_tlds THEN Hit(5, "Premium TLD (+5)")
                    ELSE IF tld \in suspicious_tlds THEN Hit(-10, "Suspicious TLD (-10)")
                    ELSE Miss
        domain_root == dparts[1]
        length_part ==
            IF Len(domain_root) < 4 /\ category # "free"
            THEN Hit(10, "Short premium domain (+10)")
            ELSE IF Len(domain_root) > 20 THEN Hit(-5, "Suspiciously long domain (-5)")
            ELSE Miss
        name_parts == words(lower(name))
        email_local == lower(split(email, "@")[1])
        match_part ==
            IF \E k \in 1..Len(name_parts) :
                   Len(name_parts[k]) > 2 /\ Contains(email_local, name_parts[k])
            THEN Hit(5, "Name matches email (+5)") ELSE Miss
        pattern_part ==
            IF \/ \E i \in 1..(Len(email_local) - 3) :
                      \A j \in i..(i + 3) : IsDigit(At(email_local, j))
               \/ Len(split(email_local, ".")) - 1 > 2
            THEN Hit(-5, "Suspicious email pattern (-5)") ELSE Miss
        total == Sum(<<base, company, phone, tld_part, length_part, match_part,
                       pattern_part>>)
        capped == IF total.score > 100 THEN 100 ELSE IF total.score < 0 THEN 0
                  ELSE total.score
    IN  [score |-> capped, reason |-> total.reasons]

NotScoredV06 == [score |-> 0, reason |-> <<>>]

\* One call of calculate_score (lines 96 and 120 fill the two caches).
score_v06 ==
    /\ Len(v6_leads) < MaxCalls
    /\ \E name \in NamesV06, email \in EmailsV06 :
        LET domain == lower(split(email, "@")[2])
            company_data == enrich_company(company_cache, domain, name)
            phone_data == enrich_phone(phone_cache, email, name, domain)
        IN  /\ company_cache' = (domain :> company_data) @@ company_cache
            /\ phone_cache' = (email :> phone_data) @@ phone_cache
            /\ v6_leads' = Append(v6_leads, [name |-> name, email |-> email])
            /\ v6_out' = calculate_score_v06(name, email, company_data, phone_data)
    /\ UNCHANGED <<rest_v06, opencorporates>>

\* A new engine: both TTLCaches are empty.
InitV06 ==
    /\ opencorporates \in [NamesV06 -> Companies]
    /\ company_cache = <<>>
    /\ phone_cache = <<>>
    /\ v6_leads = <<>>
    /\ v6_out = NotScoredV06

NoV06 ==
    /\ opencorporates = [q \in NamesV06 |-> CHOOSE c \in Companies : ~c.found]
    /\ company_cache = <<>>
    /\ phone_cache = <<>>
    /\ v6_leads = <<>>
    /\ v6_out = NotScoredV06

NoEngines == NoEngine /\ NoV06

-----------------------------------------------------------------------------
\* Specifications

InitJob ==
    /\ status = "none"
    /\ total_rows_db = 0
    /\ processed_file_path = FALSE
    /\ results = <<>>
    /\ logs_db = <<>>
    /\ in_map = FALSE
    /\ snap = InitSnapshot
    /\ upfile = TRUE
    /\ outfile = FALSE
    /\ artifact = <<>>
    /\ pc = "idle"
    /\ idx = 0
    /\ processed_data = <<>>
    /\ cpc = "none"
    /\ observed = <<>>

\* The job with its worker, the cleanup thread and a client polling the status.
Init ==
    /\ upload \in Uploads
    /\ InitJob
    /\ faults = 0
    /\ NoStreamer
    /\ NoPoll
    /\ NoV05
    /\ NoScore
    /\ NoEngines

Next ==
    \/ process_file
    \/ Worker
    \/ cleanup_progress
    \/ get_session_details

Spec == Init /\ [][Next]_vars

\* The same runs, with every thread that can take a step eventually taking
\* one: the request is served, the worker thread is scheduled, the sleep of the
\* cleanup thread ends.
SpecFair ==
    /\ Spec
    /\ WF_vars(process_file)
    /\ WF_vars(Worker)
    /\ WF_vars(cleanup_progress)

\* The job with its worker, the cleanup thread and one subscriber of the stream,
\* in the runs in which no write fails (the fault budget starts used up, so the
\* handler of lines 1220-1229 is never entered).
InitStream ==
    /\ upload \in StreamUploads
    /\ InitJob
    /\ faults = MaxFaults
    /\ InitStreamer
    /\ NoPoll
    /\ NoV05
    /\ NoScore
    /\ NoEngines

NextStream ==
    \/ process_file
    \/ WorkerMain
    \/ cleanup_progress
    \/ Streamer

SpecStream == InitStream /\ [][NextStream]_vars

\* The same runs, with every thread that can take a step eventually taking
\* one: the request is served, the worker thread and the generator are scheduled,
\* the sleep of the cleanup thread ends.
SpecStreamFair ==
    /\ SpecStream
    /\ WF_vars(process_file)
    /\ WF_vars(WorkerMain)
    /\ WF_vars(cleanup_progress)
    /\ WF_vars(Streamer)

\* The job with its worker and the cleanup thread, in the runs in which no
\* write fails, and one client polling its progress.
InitPollJob ==
    /\ upload \in StreamUploads
    /\ InitJob
    /\ faults = MaxFaults
    /\ NoStreamer
    /\ InitPoll
    /\ NoV05
    /\ NoScore
    /\ NoEngines

NextPoll ==
    \/ process_file
    \/ WorkerMain
    \/ cleanup_progress
    \/ get_progress

SpecPoll == InitPollJob /\ [][NextPoll]_vars

\* The job of src/app_v05.py with its worker.
NoJob ==
    /\ upload = [readable |-> FALSE, cols |-> required_columns, rows |-> <<>>]
    /\ InitJob
    /\ faults = 0
    /\ NoStreamer
    /\ NoPoll

InitV05Job == NoJob /\ InitV05 /\ NoScore /\ NoEngines

NextV05 ==
    \/ upload_v05
    \/ process_file_async
    \/ stream_v05

SpecV05 == InitV05Job /\ [][NextV05]_vars

\* One lead and its score.
InitLead == NoJob /\ NoV05 /\ InitScore /\ NoEngines

NextScore == score_lead

SpecScore == InitLead /\ [][NextScore]_vars

\* One calculate_score call of the app_v05 engine.
InitEngineCall == NoJob /\ NoV05 /\ NoScore /\ InitEngine /\ NoV06

NextEngine ==
    \/ calculate_score
    \/ get_company_intelligence
    \/ detect_industry

SpecEngine == InitEngineCall /\ [][NextEngine]_vars

\* One EnhancedScoringEngine scoring up to MaxCalls leads.
InitEngineV06 == NoJob /\ NoV05 /\ NoScore /\ NoEngine /\ InitV06

NextV06 == score_v06

SpecV06 == InitEngineV06 /\ [][NextV06]_vars

-----------------------------------------------------------------------------
\* Claims about the worker of src/app.py

Rank(st) == CASE st = "pending" -> 0
              [] st = "processing" -> 1
              [] st \in {"completed", "failed"} -> 2

ErrorLogs(logs) == SelectSeq(logs, LAMBDA e : e.level = "error")

RaisingRows == {i \in 1..NRows : ScoringRaises(upload.rows[i])}

\* C1: the persisted statuses seen by successive polls of one job form a
\* subsequence of [pending, processing, completed|failed]: each change of the
\* observed status moves strictly forward, so a completed or failed status is
\* never followed by another one - whatever database write, log write or
\* file-cleanup step fails.
C1_StatusNeverRegresses ==
    \A i \in 1..(Len(observed) - 1) : Rank(observed[i]) < Rank(observed[i + 1])

\* C2: once the worker thread has terminated (returned, or died of an exception),
\* the persisted status is completed or failed, never processing.
C2_TerminatedJobIsTerminal ==
    WorkerTerminated => status \in {"completed", "failed"}

\* C3: with N readable rows of which exactly one raises while it is verified or
\* scored, and no write failing, the job ends completed with N-1 ResultRows and
\* exactly one error LogEntry, which names the raising row.
C3_RowFailureIsConfined ==
    (/\ WorkerTerminated
     /\ faults = 0
     /\ upload.readable
     /\ missing_columns = {}
     /\ Cardinality(RaisingRows) = 1)
    => /\ status = "completed"
       /\ Len(results) = NRows - 1
       /\ \A i \in 1..Len(results) : results[i] \notin RaisingRows
       /\ Len(ErrorLogs(logs_db)) = 1
       /\ \A i \in 1..Len(ErrorLogs(logs_db)) : ErrorLogs(logs_db)[i].row \in RaisingRows

\* C5 (src/app.py): for a readable sheet that lacks the name or the email column,
\* and no write failing, the worker scores no row, persists no ResultRow, writes
\* exactly one error LogEntry, which names the missing columns, and leaves the
\* persisted status failed.
C5_MissingColumnsFailTheJob ==
    (/\ WorkerTerminated
     /\ faults = 0
     /\ upload.readable
     /\ missing_columns # {})
    => /\ processed_data = <<>>
       /\ results = <<>>
       /\ Len(ErrorLogs(logs_db)) = 1
       /\ \A i \in 1..Len(ErrorLogs(logs_db)) : ErrorLogs(logs_db)[i].cols = missing_columns
       /\ status = "failed"

-----------------------------------------------------------------------------
\* Claims about the worker of src/app_v05.py

RaisingRowsV05 == {i \in 1..NRowsV05 : EngineRaises(v5_upload.rows[i])}

ErrorLogsFor(logs, r) == SelectSeq(logs, LAMBDA e : e.level = "error" /\ e.row = r)

ResultRows(rows) == {rows[i] : i \in 1..Len(rows)}

\* C4: when the post-loop persistence steps succeed, the job of a readable sheet
\* with both columns ends completed; every row the engine raises on has exactly
\* one error LogEntry naming it and no ResultRow; every other row has a
\* ResultRow; and no row whose processing raised (it has an error LogEntry) has
\* a ResultRow.
C4_RowFailureIsLoggedAndSkipped ==
    (/\ TerminatedV05
     /\ v5_upload.readable
     /\ missing_columns_v05 = {}
     /\ v5_faults.commit = 0)
    => /\ v5_status = "completed"
       /\ \A i \in RaisingRowsV05 :
            /\ Len(ErrorLogsFor(v5_logs_db, i)) = 1
            /\ i \notin ResultRows(v5_results_db)
       /\ \A i \in (1..NRowsV05) \ RaisingRowsV05 : i \in ResultRows(v5_results_db)
       /\ \A i \in 1..NRowsV05 :
            ErrorLogsFor(v5_logs_db, i) # <<>> => i \notin ResultRows(v5_results_db)

-----------------------------------------------------------------------------
\* Claims about progress_stream of src/app.py

JobTerminal == status \in {"completed", "failed"}

\* C6: a subscription to a job that reaches a terminal status (completed or
\* failed) eventually receives the complete event and is closed.
C6_StreamEventuallyCompletes ==
    [](JobTerminal => <>(spc = "closed"))

\* C7: between polling rounds the subscriber has received exactly the first
\* last_log_index entries of the job's in-memory log, in append order: nothing
\* sent twice, nothing skipped.
C7_DeliveredIsLogPrefix ==
    spc \in {"loop", "lookup", "slice", "check", "db_check", "closed"}
    => /\ last_log_index <= Len(snap.logs)
       /\ delivered = SubSeq(snap.logs, 1, last_log_index)

\* C8: the events sent to one subscriber start with exactly one connected event
\* and contain at most one complete event, after which nothing is sent and the
\* generator is closed.
C8_EventSequenceWellFormed ==
    /\ events.first \in {"none", "connected"}
    /\ events.connected <= 1
    /\ (spc \notin {"start", "absent"} => events.connected = 1)
    /\ events.complete <= 1
    /\ ~events.after_complete
    /\ (events.complete = 1 => spc = "closed")

\* A subscription that sent log events and ended with the complete event.
C8_Witness ==
    /\ spc = "closed"
    /\ events.complete = 1
    /\ delivered # <<>>

-----------------------------------------------------------------------------
\* Claims about calculate_enhanced_score of src/app.py

Reasons(out) == {out.reasons[i] : i \in 1..Len(out.reasons)}

NoFlags == [k \in DOMAIN sc_flags |-> FALSE]

CategoryReasons ==
    {"Free email provider (+5)", "Telecom operator domain (+40)",
     "Large enterprise domain (+30)", "Corporate domain (+15)"}

\* C9: a lead whose domain has the sanctioned TLD .ru gets the -50 sanctions
\* penalty and is still scored by the other detectors: its rationale names the
\* sanctions and also the category of the domain and, for a name of two words or
\* more, the professional name format.
C9_SanctionsDoNotShortCircuit ==
    (sc_scored /\ get_tld(sc_domain) = ".ru")
    => /\ "Russian domain - sanctions applied (-50)" \in Reasons(sc_out)
       /\ Reasons(sc_out) \cap CategoryReasons # {}
       /\ (Len(words(strip(sc_name))) >= 2
           => "Professional name format (+10)" \in Reasons(sc_out))

ScenarioB ==
    /\ sc_scored
    /\ sc_name = ""
    /\ sc_email = "test123@yahoo.com"
    /\ sc_flags = NoFlags

AllFlags == [k \in DOMAIN sc_flags |-> TRUE]

C11_ScoreWithinBounds ==
    sc_scored => sc_out.score >= -50 /\ sc_out.score <= 150

\* A lead whose detectors add up to 170 is returned as 150.
C11_Witness ==
    /\ sc_scored
    /\ sc_name = "John Smith"
    /\ sc_email = "john.smith@vodafone.com"
    /\ sc_flags = AllFlags
    /\ sc_out.score = 150

\* C12: extract_domain returns a domain exactly when the email holds one
\* '@' followed by a non-empty suffix, and None for every other input.
CountOf(s, c) == Cardinality({i \in 1..Len(s) : At(s, i) = c})

C12_ExtractDomainDefinedIff ==
    sc_scored =>
        ((sc_domain # None) <=>
            /\ CountOf(sc_email, "@") = 1
            /\ At(sc_email, Len(sc_email)) # "@")

InRowLog == pc \in {"r_domain", "r_log_result"} /\ HasDomain(upload.rows[idx])

C14_RowLogFailureDoesNotAbort ==
    [][(InRowLog /\ faults' = faults + 1) => pc' \in {"r_score", "r_collect"}]_vars

\* C15: when the final commit (line 1215) fails after the output artifact
\* was written, the handler of lines 1219-1229 leaves no artifact of the job
\* on disk when it hands over to the outer handler, which ends the job as
\* failed, whether the handler's own log write succeeded or raised.
InCommitFailureHandler == pc \in {"h_log", "h_unlink", "h_failed"} /\ status # "completed"

C15_FailedPersistenceRemovesArtifact ==
    [][(InCommitFailureHandler /\ pc' = "x_outer") => ~outfile']_vars

\* C16: in a completed job the i-th persisted ResultRow and row i of the
\* output artifact carry what was computed from input row i, for every i:
\* no row is dropped, duplicated or reordered.
InputOrder == [i \in 1..NRows |-> i]

C16_RowsKeepInputOrder ==
    status = "completed" =>
        /\ results = InputOrder
        /\ outfile => artifact = InputOrder

\* A job of MaxRows rows has completed and its artifact is on disk.
C16_Witness ==
    /\ status = "completed"
    /\ outfile
    /\ NRows = MaxRows
    /\ Len(results) = MaxRows
    /\ Len(artifact) = MaxRows

\* C17: in app_v05 a row whose name or email cell is null is not rejected:
\* it is scored with the empty string in place of the cell and a ResultRow is
\* persisted for it.
NullRowsV05 == {i \in 1..NRowsV05 : v5_upload.rows[i] = "null"}

C17_NullCellsAreScored ==
    v5_status = "completed" => \A i \in NullRowsV05 : i \in ResultRows(v5_results_db)

\* C18: for a free-provider domain calculate_enhanced_score returns the same
\* score and rationale whether domain_alive is True or False: the liveness
\* check contributes no score delta.
OtherLiveness == [sc_flags EXCEPT !.domain_alive = ~@]

C18_FreeProviderIgnoresLiveness ==
    (sc_scored /\ is_free_provider(sc_domain)) =>
        LET other == calculate_enhanced_score(sc_domain, sc_name, sc_email, OtherLiveness)
        IN  other.score = sc_out.score /\ other.reasons = sc_out.reasons

\* A lead at a free provider was scored with domain_alive = True.
C18_Witness ==
    /\ sc_scored
    /\ is_free_provider(sc_domain)
    /\ sc_flags.domain_alive
    /\ "Free email provider - domain check skipped" \in Reasons(sc_out)

\* C19: an accepted upload creates one Job with status processing and starts
\* one worker for it, and the request returns before any row is scored; the
\* worker of a job is never started again, and its rows are processed
\* strictly one after another.
WorkerStarts == pc # "w_start" /\ pc' = "w_start"

C19_OneJobOneWorker ==
    [][/\ WorkerStarts =>
            /\ pc = "idle" /\ status = "none"
            /\ status' = "processing"
            /\ idx' = 0 /\ processed_data' = <<>> /\ results' = <<>>
       /\ pc # "idle" => pc' # "idle"
       /\ idx' # idx => (idx' = idx + 1 /\ Len(processed_data) = idx)]_vars

\* The worker is scoring the second row after it collected the first.
C19_Witness ==
    /\ status = "processing"
    /\ pc = "r_score"
    /\ idx = 2
    /\ Len(processed_data) = 1

\* C20: get_progress returns the in-memory snapshot when the job has one,
\* otherwise the persisted job state, with processed_rows = total_rows for a
\* completed job, and answers not-found exactly when the job id is in neither
\* the progress map nor the store; a completed job whose snapshot was evicted
\* is never answered not-found.
Responds == gpc \in {"lookup", "fallback"} /\ gpc' = "idle"

C20_ProgressFallsBackToStore ==
    [][Responds =>
        /\ gpc = "lookup" => response' = SnapshotResponse
        /\ (gpc = "fallback" /\ status # "none") => response' = PersistedResponse
        /\ response'.kind = "not_found" <=> (~in_map /\ status = "none")
        /\ (status = "completed" /\ response'.kind = "persisted") =>
                response'.processed_rows = response'.total_rows]_vars

\* C21: no snapshot returned by get_progress is torn: processed_rows,
\* current_row, current_step and message refer to the same row, whatever the
\* interleaving of the worker's per-row update with the poll.
RowOf(text, row) == IF text.text = "Processing row" THEN text.row ELSE row

C21_NoTornSnapshot ==
    response.kind = "snapshot" =>
        /\ response.processed_rows = response.current_row
        /\ RowOf(response.current_step, response.current_row) = response.current_row
        /\ RowOf(response.message, response.current_row) = response.current_row

\* C22: when the generator emits complete on the snapshot's current_step
\* (line 1501), every entry appended to the job's in-memory log so far, the
\* final success entry included, has been delivered to the subscriber.
CompleteFromSnapshot == spc = "check" /\ events'.complete > events.complete

C22_CompleteAfterAllLogs ==
    [][CompleteFromSnapshot => delivered = snap.logs]_vars

\* C23: DIDWWScoringEngine.calculate_score terminates and returns its triple
\* for every email that holds '@', the domains that are neither free, telecom
\* nor enterprise included: the call never ends in an exception.
C23_EngineReturns == engine.pc # "raised"

\* C24: a job's snapshot is modified only by the job's worker: a step of a
\* reader (get_progress, progress_stream) leaves every field of
\* progress_updates[job] as it was, in src/app.py and in src/app_v05.py.
WorkerStepV05 == v5_pc' # v5_pc

WorkerStepApp == pc' # pc \/ cpc' # cpc

C24_OnlyWorkerWritesSnapshot ==
    [][/\ v5_snap' # v5_snap => WorkerStepV05
       /\ snap' # snap => WorkerStepApp]_vars

\* C25: every job that reaches a terminal status, failed as well as completed,
\* has its snapshot eventually removed from progress_updates: no finished
\* job's snapshot stays in the map forever.
C25_FinishedSnapshotEvicted == JobTerminal ~> ~in_map

\* C26: eviction of the snapshot concurrently with a reader never makes the
\* reader fail: whatever the interleaving of the membership test, the lookup
\* and the eviction, get_progress answers and progress_stream goes on, neither
\* ends in an unhandled missing-key error.
C26_EvictionNeverFailsReader ==
    /\ response.kind # "error"
    /\ spc # "crashed"

\* C27: calculate_score of the v06 engine returns the same score and rationale
\* for a given (name, email) whatever leads were scored before: what a call
\* returns is what a new engine, with empty caches, returns for the same lead.
FreshScoreV06(name, email) ==
    LET domain == lower(split(email, "@")[2])
    IN  calculate_score_v06(name, email, enrich_company(<<>>, domain, name),
                            enrich_phone(<<>>, email, name, domain))

C27_ScoreIndependentOfEarlierLeads ==
    v6_leads # <<>> =>
        v6_out = FreshScoreV06(v6_leads[Len(v6_leads)].name, v6_leads[Len(v6_leads)].email)

\* C28: every ProcessingLog.progress value process_file_async writes lies in
\* [0, 100], for every upload and every date filter.
C28_ProgressWithinRange ==
    \A i \in 1..Len(v5_logs_db) :
        LET progress == v5_logs_db[i].progress
        IN  0 <= progress.num /\ progress.num <= 100 * progress.den

\* C29: whenever the snapshot's current_step is 'completed', the persisted
\* Job.status is completed, processed_file_path is set, and exactly total_rows
\* ResultRows are persisted for the job.
C29_CompletedSnapshotIsPersisted ==
    snap.current_step.text = "completed" =>
        /\ status = "completed"
        /\ processed_file_path
        /\ Len(results) = snap.total_rows
        /\ Len(results) = total_rows_db

C29_Witness ==
    /\ snap.current_step.text = "completed"
    /\ in_map
    /\ Len(results) = MaxRows

\* C30: every snapshot satisfies 0 <= processed_rows <= total_rows, and the
\* processed_rows values successive get_progress calls return for one job
\* never decrease, also across the eviction of the snapshot and the fallback
\* to the persisted state: an answer is not below the answer before it, and
\* the fallback for a completed job is not below what the snapshot held.
HasRows(r) == r.kind \in {"snapshot", "persisted"}

SnapshotInRange == 0 <= snap.processed_rows /\ snap.processed_rows <= snap.total_rows

C30_ProcessedRowsBoundedMonotone ==
    /\ []SnapshotInRange
    /\ [][/\ (HasRows(response) /\ HasRows(response')) =>
                  response'.processed_rows >= response.processed_rows
          /\ (response'.kind = "persisted" /\ response' # response /\ status = "completed") =>
                  response'.processed_rows >= snap.processed_rows]_vars

C30_Witness ==
    /\ ~in_map
    /\ cpc = "done"
    /\ response.kind = "persisted"
    /\ response.processed_rows = MaxStreamRows

=============================================================================
